---- MODULE Spec2Model ----
(***************************************************************************)
(* A model of the fireplan rules compiler (Compiler.transform and the      *)
(* methods it calls).                                                      *)
(*                                                                         *)
(* Source text (rule expressions, function bodies, the strings of the      *)
(* output rules) is a sequence of lexemes: identifiers, string and number  *)
(* literals, punctuators and single whitespace characters.  esprima.parse  *)
(* is the recursive-descent parser Parse* below, escodegen.generate the    *)
(* precedence-driven printer Gen*, estraverse.replace the walk Visit with  *)
(* the compiler's enter and leave callbacks.                               *)
(*                                                                         *)
(* The decoded YAML document is a heap of mappings: a mapping is an        *)
(* ordered sequence of entries, and an entry's value is a text, a boolean  *)
(* or a pointer to a mapping of the heap.  Two entries holding the same    *)
(* pointer are a YAML anchor and its alias.  The compiler writes into the  *)
(* decoded document while it walks it; the heap carries those writes.      *)
(***************************************************************************)
EXTENDS Naturals, Sequences, FiniteSets, TLC

(***************************************************************************)
(* Lexemes                                                                 *)
(***************************************************************************)
Id(n) == [k |-> "id", v |-> n]
S(x) == [k |-> "str", v |-> x]
N(x) == [k |-> "num", v |-> x]
P(x) == [k |-> "p", v |-> x]
Pat(x) == [k |-> "pat", v |-> x]
PatOpen(x) == [k |-> "patopen", v |-> x]
PatClose(x) == [k |-> "patclose", v |-> x]
W == [k |-> "ws", v |-> " "]
\* What escodegen is handed where the tree holds undefined.
Undef == [k |-> "undef", v |-> ""]

IsWs(t) == t.k = "ws"

NoWs(text) == SelectSeq(text, LAMBDA t : ~IsWs(t))

\* The characters of one lexeme.
Lexeme(t) ==
  CASE t.k = "str" -> "'" \o t.v \o "'"
    [] t.k = "pat" -> "[" \o t.v \o "]"
    [] t.k = "patopen" -> "[" \o t.v
    [] t.k = "patclose" -> t.v \o "]"
    [] OTHER -> t.v

\* The characters of a text.
RECURSIVE Str(_)
Str(text) == IF text = <<>> THEN "" ELSE Lexeme(Head(text)) \o Str(Tail(text))

(***************************************************************************)
(* Expression trees                                                        *)
(***************************************************************************)
Ident(n) == [type |-> "Identifier", name |-> n, output |-> ""]
Lit(kind, x) == [type |-> "Literal", kind |-> kind, value |-> x, output |-> ""]
Member(o, p, c) ==
  [type |-> "MemberExpression", computed |-> c, object |-> o, property |-> p,
   output |-> ""]
Call(c, args) ==
  [type |-> "CallExpression", callee |-> c, arguments |-> args, output |-> ""]
Binary(op, l, r) ==
  [type |-> "BinaryExpression", operator |-> op, left |-> l, right |-> r,
   output |-> ""]
Logical(op, l, r) ==
  [type |-> "LogicalExpression", operator |-> op, left |-> l, right |-> r,
   output |-> ""]
Unary(op, a) ==
  [type |-> "UnaryExpression", operator |-> op, argument |-> a, output |-> ""]
ExprStmt(e) == [type |-> "ExpressionStatement", expression |-> e, output |-> ""]
Program(stmts) == [type |-> "Program", body |-> stmts, output |-> ""]
NoNode == [type |-> "None", output |-> ""]

Snapshot(node) == [node EXCEPT !.output = "snapshot"]

(***************************************************************************)
(* esprima.parse                                                           *)
(***************************************************************************)
BinaryOps(level) ==
  CASE level = 1 -> {"||"}
    [] level = 2 -> {"&&"}
    [] level = 3 -> {"==", "!=", "===", "!=="}
    [] level = 4 -> {"<", "<=", ">", ">="}
    [] level = 5 -> {"+", "-"}
    [] level = 6 -> {"*", "/", "%"}
    [] OTHER -> {}

ParseFail == [ok |-> FALSE, ast |-> NoNode, rest |-> <<>>]
Parsed(node, rest) == [ok |-> TRUE, ast |-> node, rest |-> rest]

IsP(toks, x) == toks # <<>> /\ Head(toks) = P(x)

RECURSIVE ParseBinary(_, _), ParseBinaryRest(_, _, _), ParseUnary(_)
RECURSIVE ParsePostfixRest(_, _), ParseArgs(_, _), ParsePrimary(_)

ParseExpr(toks) == ParseBinary(1, toks)

ParsePrimary(toks) ==
  IF toks = <<>> THEN ParseFail
  ELSE LET h == Head(toks) IN
    CASE h.k = "id" ->
           Parsed(IF h.v \in {"true", "false"} THEN Lit("bool", h.v) ELSE Ident(h.v),
                  Tail(toks))
      [] h.k = "str" -> Parsed(Lit("str", h.v), Tail(toks))
      [] h.k = "num" -> Parsed(Lit("num", h.v), Tail(toks))
      [] h = P("(") ->
           LET e == ParseExpr(Tail(toks)) IN
             IF e.ok /\ IsP(e.rest, ")") THEN Parsed(e.ast, Tail(e.rest))
             ELSE ParseFail
      [] OTHER -> ParseFail

ParseArgs(toks, acc) ==
  IF acc = <<>> /\ IsP(toks, ")") THEN Parsed(acc, Tail(toks))
  ELSE LET e == ParseExpr(toks) IN
    IF ~e.ok THEN ParseFail
    ELSE IF IsP(e.rest, ",") THEN ParseArgs(Tail(e.rest), Append(acc, e.ast))
    ELSE IF IsP(e.rest, ")") THEN Parsed(Append(acc, e.ast), Tail(e.rest))
    ELSE ParseFail

ParsePostfixRest(left, toks) ==
  IF IsP(toks, ".") THEN
    IF Len(toks) >= 2 /\ toks[2].k = "id"
    THEN ParsePostfixRest(Member(left, Ident(toks[2].v), FALSE), SubSeq(toks, 3, Len(toks)))
    ELSE ParseFail
  ELSE IF IsP(toks, "[") THEN
    LET e == ParseExpr(Tail(toks)) IN
      IF e.ok /\ IsP(e.rest, "]")
      THEN ParsePostfixRest(Member(left, e.ast, TRUE), Tail(e.rest))
      ELSE ParseFail
  ELSE IF IsP(toks, "(") THEN
    LET a == ParseArgs(Tail(toks), <<>>) IN
      IF a.ok THEN ParsePostfixRest(Call(left, a.ast), a.rest) ELSE ParseFail
  ELSE Parsed(left, toks)

ParseUnary(toks) ==
  IF toks # <<>> /\ Head(toks) \in {P("!"), P("-")} THEN
    LET a == ParseUnary(Tail(toks)) IN
      IF a.ok THEN Parsed(Unary(Head(toks).v, a.ast), a.rest) ELSE ParseFail
  ELSE LET p == ParsePrimary(toks) IN
    IF p.ok THEN ParsePostfixRest(p.ast, p.rest) ELSE ParseFail

ParseBinaryRest(level, left, toks) ==
  IF toks # <<>> /\ Head(toks).k = "p" /\ Head(toks).v \in BinaryOps(level) THEN
    LET r == ParseBinary(level + 1, Tail(toks))
        op == Head(toks).v
    IN IF ~r.ok THEN ParseFail
       ELSE ParseBinaryRest(level,
              IF level <= 2 THEN Logical(op, left, r.ast) ELSE Binary(op, left, r.ast),
              r.rest)
  ELSE Parsed(left, toks)

ParseBinary(level, toks) ==
  IF BinaryOps(level) = {} THEN ParseUnary(toks)
  ELSE LET l == ParseBinary(level + 1, toks) IN
    IF l.ok THEN ParseBinaryRest(level, l.ast, l.rest) ELSE ParseFail

\* esprima.parse(text): a Program of at most one expression statement.
Parse(text) ==
  LET toks == NoWs(text) IN
    IF toks = <<>> THEN Parsed(Program(<<>>), <<>>)
    ELSE LET e == ParseExpr(toks) IN
      IF e.ok /\ e.rest = <<>> THEN Parsed(Program(<<ExprStmt(e.ast)>>), <<>>)
      ELSE ParseFail

(***************************************************************************)
(* escodegen.generate, with {semicolons: false, newline: ' '}              *)
(***************************************************************************)
Precedence(what) ==
  CASE what = "Sequence" -> 0
    [] what = "Assignment" -> 1
    [] what = "||" -> 3
    [] what = "&&" -> 4
    [] what \in {"==", "!=", "===", "!=="} -> 8
    [] what \in {"<", "<=", ">", ">="} -> 9
    [] what \in {"+", "-"} -> 11
    [] what \in {"*", "/", "%"} -> 12
    [] what = "Unary" -> 14
    [] what = "Call" -> 16
    [] what = "Member" -> 19
    [] OTHER -> 20

Parenthesize(text, current, should) ==
  IF current < should THEN <<P("(")>> \o text \o <<P(")")>> ELSE text

RECURSIVE GenExpr(_, _), GenArgs(_)

GenArgs(args) ==
  IF args = <<>> THEN <<>>
  ELSE GenExpr(Head(args), Precedence("Assignment")) \o
       (IF Len(args) > 1 THEN <<P(","), W>> \o GenArgs(Tail(args)) ELSE <<>>)

GenExpr(node, prec) ==
  CASE node.type = "Identifier" -> <<Id(node.name)>>
    [] node.type = "Literal" ->
         IF node.kind = "str" THEN <<S(node.value)>>
         ELSE IF node.kind = "num" THEN <<N(node.value)>>
         ELSE <<Id(node.value)>>
    [] node.type \in {"BinaryExpression", "LogicalExpression"} ->
         LET cur == Precedence(node.operator) IN
           Parenthesize(GenExpr(node.left, cur) \o <<W, P(node.operator), W>> \o
                        GenExpr(node.right, cur + 1), cur, prec)
    [] node.type = "UnaryExpression" ->
         Parenthesize(<<P(node.operator)>> \o GenExpr(node.argument, Precedence("Unary")),
                      Precedence("Unary"), prec)
    [] node.type = "CallExpression" ->
         Parenthesize(GenExpr(node.callee, Precedence("Call")) \o <<P("(")>> \o
                      GenArgs(node.arguments) \o <<P(")")>>, Precedence("Call"), prec)
    [] node.type = "MemberExpression" ->
         Parenthesize(GenExpr(node.object, Precedence("Call")) \o
                      (IF node.computed
                       THEN <<P("[")>> \o GenExpr(node.property, Precedence("Sequence")) \o
                            <<P("]")>>
                       ELSE <<P("."), Id(node.property.name)>>),
                      Precedence("Member"), prec)
    [] node.type = "ExpressionStatement" ->
         GenExpr(node.expression, Precedence("Sequence"))
    [] node.type = "Program" ->
         IF node.body = <<>> THEN <<>> ELSE GenExpr(node.body[1], Precedence("Sequence"))
    [] OTHER -> <<Undef>>

\* Compiler.generate
Generate(ast) == GenExpr(ast, Precedence("Sequence"))


(***************************************************************************)
(* Compiler.transformAst: one estraverse.replace walk                      *)
(***************************************************************************)
BUILTINS == {"auth", "now", "root", "next", "newData", "prev", "data", "env", "query"}

\* process.env, fixed for a compilation; an unset variable reads undefined.
EnvVars == [DATASTORE |-> "dev"]
ProcessEnv(name) == IF name \in DOMAIN EnvVars THEN EnvVars[name] ELSE ""

NEW_DATA_VAL == Call(Member(Ident("newData"), Ident("val"), FALSE), <<>>)

Includes(seq, x) == \E i \in 1..Len(seq) : seq[i] = x

\* this.functions: the entries in insertion order.
FnNames(fns) == {fns[i].name : i \in 1..Len(fns)}
\* this.functions is an object literal: name in this.functions also finds the
\* properties it inherits.
ObjectPrototype ==
  {"constructor", "hasOwnProperty", "isPrototypeOf", "propertyIsEnumerable", "toLocaleString",
   "toString", "valueOf"}
FnGet(fns, name) == fns[CHOOSE i \in 1..Len(fns) : fns[i].name = name]

\* The result of a walk step: the node put in place, whether this.changed was
\* set, and the message of the error thrown ("" when none).
R(node, changed, err) == [node |-> node, changed |-> changed, err |-> err]

\* The scope an expression is transformed in.
Ctx(locals, refs, level, newData) ==
  [locals |-> locals, refs |-> refs, level |-> level, newData |-> newData]

\* refs of a call that passes none (defineFunctions).
NoRefs == [n \in {} |-> 0]

\* A ref expanded to its base alone, whatever the depth it was bound at.
RefNodeFlat(base, parents) == Snapshot(Ident(base))

RECURSIVE RefNode(_, _)
RefNode(base, parents) ==
  IF parents = 0 THEN Snapshot(Ident(base))
  ELSE Snapshot(Call(Member(RefNode(base, parents - 1), Ident("parent"), FALSE), <<>>))

IsSnapshotCall(node) ==
  /\ node.type = "CallExpression"
  /\ \/ node.callee.type = "Identifier" /\ node.callee.name \in {"child", "parent"}
     \/ /\ node.callee.type = "MemberExpression"
        /\ ~node.callee.computed
        /\ node.callee.property.name \in {"child", "parent"}

\* The enter callback.  ptype, pcomputed describe the parent node and slot is
\* the parent's field that holds node.
EnterIdentifier(node, ctx, fns) ==
  CASE node.name \in {"auth", "now"} -> R(node, FALSE, "")
    [] node.name = "root" -> R(Snapshot(node), FALSE, "")
    [] node.name \in {"next", "newData"} ->
         R(Snapshot([node EXCEPT !.name = "newData"]), FALSE, "")
    [] node.name \in {"prev", "data"} ->
         R(Snapshot([node EXCEPT !.name = "data"]), FALSE, "")
    [] OTHER ->
         IF node.name \in {"oneOf", "env"} THEN R(node, FALSE, "")
         ELSE IF Includes(ctx.locals, node.name) THEN R(node, FALSE, "")
         ELSE IF node.name \in DOMAIN ctx.refs THEN
           R(RefNode(IF ctx.newData THEN "newData" ELSE "data",
                     ctx.level - ctx.refs[node.name]), TRUE, "")
         ELSE IF node.name \in FnNames(fns) \cup ObjectPrototype
         THEN R(Call(node, <<>>), TRUE, "")
         ELSE R(node, FALSE, "Unknown reference")

Enter(node, ptype, pcomputed, slot, ctx, fns) ==
  IF /\ node.type = "Identifier"
     /\ ~ \/ ptype = "MemberExpression" /\ ~pcomputed /\ slot = "property"
          \/ ptype = "CallExpression" /\ slot = "callee"
  THEN EnterIdentifier(node, ctx, fns)
  ELSE IF IsSnapshotCall(node) THEN R(Snapshot(node), FALSE, "")
  ELSE R(node, FALSE, "")

\* The inner estraverse.replace of the inlining: parameters are replaced by the
\* call's arguments, and the walk goes on into what it put in place.  fuel
\* bounds the depth of that walk; node NoNode with err "diverges" stands for a
\* walk that does not end.
RECURSIVE Substitute(_, _, _, _, _, _), SubstituteAll(_, _, _, _)

SubstituteAll(nodes, ptype, bindings, fuel) ==
  IF nodes = <<>> THEN R(<<>>, FALSE, "")
  ELSE LET h == Substitute(Head(nodes), ptype, FALSE, "arguments", bindings, fuel) IN
    IF h.err # "" THEN h
    ELSE LET t == SubstituteAll(Tail(nodes), ptype, bindings, fuel) IN
      IF t.err # "" THEN t ELSE R(<<h.node>> \o t.node, FALSE, "")

Substitute(node, ptype, pcomputed, slot, bindings, fuel) ==
  LET replaced ==
        /\ node.type = "Identifier"
        /\ node.name \in DOMAIN bindings
        /\ ~(ptype = "MemberExpression" /\ ~pcomputed /\ slot = "property")
      n == IF replaced THEN bindings[node.name] ELSE node
      f == IF replaced THEN fuel - 1 ELSE fuel
      Sub(child, s) ==
        Substitute(child, n.type, n.type = "MemberExpression" /\ n.computed, s, bindings, f)
  IN
  IF replaced /\ fuel = 0 THEN R(NoNode, FALSE, "diverges")
  ELSE CASE n.type = "MemberExpression" ->
         LET o == Sub(n.object, "object") IN
           IF o.err # "" THEN o
           ELSE LET p == Sub(n.property, "property") IN
             IF p.err # "" THEN p
             ELSE R([n EXCEPT !.object = o.node, !.property = p.node], FALSE, "")
    [] n.type = "CallExpression" ->
         LET c == Sub(n.callee, "callee") IN
           IF c.err # "" THEN c
           ELSE LET a == SubstituteAll(n.arguments, n.type, bindings, f) IN
             IF a.err # "" THEN a
             ELSE R([n EXCEPT !.callee = c.node, !.arguments = a.node], FALSE, "")
    [] n.type \in {"BinaryExpression", "LogicalExpression"} ->
         LET l == Sub(n.left, "left") IN
           IF l.err # "" THEN l
           ELSE LET r == Sub(n.right, "right") IN
             IF r.err # "" THEN r
             ELSE R([n EXCEPT !.left = l.node, !.right = r.node], FALSE, "")
    [] n.type = "UnaryExpression" ->
         LET a == Sub(n.argument, "argument") IN
           IF a.err # "" THEN a ELSE R([n EXCEPT !.argument = a.node], FALSE, "")
    [] OTHER -> R(n, FALSE, "")

\* A oneOf that compares with its first argument alone.
OneOfConditionFirst(condition, args) == condition

RECURSIVE OneOfCondition(_, _)
OneOfCondition(condition, args) ==
  IF args = <<>> THEN condition
  ELSE OneOfCondition(Logical("||", condition, Binary("==", NEW_DATA_VAL, Head(args))),
                      Tail(args))

Bindings(params, args) ==
  [p \in {params[i] : i \in 1..Len(params)} |->
     args[CHOOSE i \in 1..Len(params) : params[i] = p /\
            \A j \in (i + 1)..Len(params) : params[j] # p]]

\* Reach of the walk into an inlined body (see Substitute).
MaxSubstDepth == 3

\* The leave callback, in the order of its statements: env expansion, the
\* .child() lift, the .val() wrap, then oneOf and function inlining.  Each
\* statement takes the walk step so far (r.node is the callback's node
\* variable) and hands on the step after it.
\* A leave callback that leaves env alone.
LeaveEnvNot(r) == r

LeaveEnv(r) ==
  IF r.node.type = "MemberExpression" /\ r.node.object.type = "Identifier" /\
     r.node.object.name = "env"
  THEN IF r.node.computed
       THEN IF r.node.property.type = "Literal"
            THEN R(Lit("str", ProcessEnv(r.node.property.value)), r.changed, "")
            ELSE R(r.node, r.changed, "Unable to expand env variable with computed name")
       ELSE R(Lit("str", ProcessEnv(r.node.property.name)), r.changed, "")
  ELSE r

\* A leave callback without the .child() lift.
LeaveChildNot(r, ptype, slot) == r

\* A leave callback without the .val() wrap.
LeaveValNot(r, ptype, pcomputed, slot) == r

LeaveChild(r, ptype, slot) ==
  IF r.err # "" THEN r
  ELSE IF /\ r.node.type = "MemberExpression"
          /\ r.node.object.output = "snapshot"
          /\ ~(ptype = "CallExpression" /\ slot = "callee")
  THEN R(Snapshot(Call(Member(r.node.object, Ident("child"), FALSE),
                       <<IF r.node.computed THEN r.node.property
                         ELSE Lit("str", r.node.property.name)>>)), TRUE, "")
  ELSE r

LeaveVal(r, ptype, pcomputed, slot) ==
  IF r.err # "" THEN r
  ELSE IF /\ r.node.output = "snapshot"
          /\ (ptype # "MemberExpression" \/ (pcomputed /\ slot = "property"))
  THEN R(Call(Member(r.node, Ident("val"), FALSE), <<>>), TRUE, "")
  ELSE r

\* A leave callback that keeps the calls of functions as they are.
LeaveCallNot(r, ctx, fns) == r

\* The inlining of a call of fn: argument count, then the walk over a clone of
\* the function's tree.
Inline(node, fn) ==
  IF Len(node.arguments) # Len(fn.args)
  THEN R(node, TRUE, "Number of arguments in call differs from signature")
  ELSE Substitute(fn.ast, fn.ast.type, FALSE, "root", Bindings(fn.args, node.arguments),
                  MaxSubstDepth)

Inlined(s) == R(s.node, TRUE, s.err)

LeaveCall(r, ctx, fns) ==
  IF r.err # "" THEN r
  ELSE IF r.node.type = "CallExpression" /\ r.node.callee.type = "Identifier"
  THEN IF Includes(ctx.locals, r.node.callee.name) THEN r
       ELSE IF r.node.callee.name = "oneOf"
       THEN R(OneOfCondition(
                Binary("==", NEW_DATA_VAL,
                       IF r.node.arguments = <<>> THEN NoNode ELSE r.node.arguments[1]),
                IF r.node.arguments = <<>> THEN <<>> ELSE Tail(r.node.arguments)), TRUE, "")
       ELSE IF r.node.callee.name \in ObjectPrototype \ FnNames(fns)
       THEN R(r.node, TRUE, "TypeError")
       ELSE IF r.node.callee.name \notin FnNames(fns)
       THEN R(r.node, TRUE, "Call to undefined function")
       ELSE Inlined(Inline(r.node, FnGet(fns, r.node.callee.name)))
  ELSE r

Leave(r, ptype, pcomputed, slot, ctx, fns) ==
  LeaveCall(LeaveVal(LeaveChild(LeaveEnv(r), ptype, slot), ptype, pcomputed, slot), ctx, fns)

\* estraverse.replace with the two callbacks: enter, then the children of what
\* enter left in place, in the order of estraverse's VisitorKeys, then leave.
\* The root's parent is the root itself (estraverse pushes the root element on
\* its leave list before the walk).
RECURSIVE Visit(_, _, _, _, _, _), VisitAll(_, _, _, _, _)

VisitAll(nodes, ptype, slot, ctx, fns) ==
  IF nodes = <<>> THEN R(<<>>, FALSE, "")
  ELSE LET h == Visit(Head(nodes), ptype, FALSE, slot, ctx, fns) IN
    IF h.err # "" THEN h
    ELSE LET t == VisitAll(Tail(nodes), ptype, slot, ctx, fns) IN
      IF t.err # "" THEN t ELSE R(<<h.node>> \o t.node, h.changed \/ t.changed, "")

\* The walk of the children of n.
VisitChildren(n, ctx, fns) ==
  LET Kid(child, s) ==
        Visit(child, n.type, n.type = "MemberExpression" /\ n.computed, s, ctx, fns)
  IN
  CASE n.type = "MemberExpression" ->
         LET o == Kid(n.object, "object") IN
           IF o.err # "" THEN o
           ELSE LET p == Kid(n.property, "property") IN
             IF p.err # "" THEN p
             ELSE R([n EXCEPT !.object = o.node, !.property = p.node],
                    o.changed \/ p.changed, "")
    [] n.type = "CallExpression" ->
         LET c == Kid(n.callee, "callee") IN
           IF c.err # "" THEN c
           ELSE LET a == VisitAll(n.arguments, n.type, "arguments", ctx, fns) IN
             IF a.err # "" THEN a
             ELSE R([n EXCEPT !.callee = c.node, !.arguments = a.node],
                    c.changed \/ a.changed, "")
    [] n.type \in {"BinaryExpression", "LogicalExpression"} ->
         LET l == Kid(n.left, "left") IN
           IF l.err # "" THEN l
           ELSE LET r == Kid(n.right, "right") IN
             IF r.err # "" THEN r
             ELSE R([n EXCEPT !.left = l.node, !.right = r.node],
                    l.changed \/ r.changed, "")
    [] n.type = "UnaryExpression" ->
         LET a == Kid(n.argument, "argument") IN
           IF a.err # "" THEN a
           ELSE R([n EXCEPT !.argument = a.node], a.changed, "")
    [] n.type = "ExpressionStatement" ->
         LET x == Kid(n.expression, "expression") IN
           IF x.err # "" THEN x
           ELSE R([n EXCEPT !.expression = x.node], x.changed, "")
    [] n.type = "Program" ->
         LET b == VisitAll(n.body, n.type, "body", ctx, fns) IN
           IF b.err # "" THEN b ELSE R([n EXCEPT !.body = b.node], b.changed, "")
    [] OTHER -> R(n, FALSE, "")

\* The type of the parent the callbacks see.
ParentType(own, ptype, slot) == IF slot = "root" THEN own ELSE ptype

\* After the children: leave, on the node with its walked children.
VisitLeave(e, kids, ptype, pcomputed, slot, ctx, fns) ==
  IF kids.err # "" THEN kids
  ELSE Leave(R(kids.node, e.changed \/ kids.changed, ""),
             ParentType(e.node.type, ptype, slot), pcomputed, slot, ctx, fns)

\* After enter: the children of the node enter left in place.
VisitEntered(e, ptype, pcomputed, slot, ctx, fns) ==
  IF e.err # "" THEN e
  ELSE VisitLeave(e, VisitChildren(e.node, ctx, fns), ptype, pcomputed, slot, ctx, fns)

Visit(node, ptype, pcomputed, slot, ctx, fns) ==
  VisitEntered(Enter(node, ParentType(node.type, ptype, slot), pcomputed, slot, ctx, fns),
               ptype, pcomputed, slot, ctx, fns)

\* Compiler.transformAst: the walk from the root; this.changed starts false.
TransformAst(ast, locals, refs, level, newData, fns) ==
  Visit(ast, ast.type, FALSE, "root", Ctx(locals, refs, level, newData), fns)

\* Compiler.expandExpression: parse, transform, generate.
Expanded(text, err) == [text |-> text, err |-> err]

ExpandGenerated(out) ==
  IF Includes(out, Undef) THEN Expanded(<<>>, "TypeError") ELSE Expanded(out, "")

ExpandTransformed(t) ==
  IF t.err # "" THEN Expanded(<<>>, t.err) ELSE ExpandGenerated(Generate(t.node))

ExpandParsed(parsed, locals, refs, level, newData, fns) ==
  IF ~parsed.ok THEN Expanded(<<>>, "TypeError")
  ELSE ExpandTransformed(TransformAst(parsed.ast, locals, refs, level, newData, fns))

\* if (_.isBoolean(expression)) expression = '' + expression
ExpressionText(expression) ==
  IF expression.t = "bool" THEN <<Id(IF expression.b THEN "true" ELSE "false")>>
  ELSE expression.v

ExpandExpression(expression, locals, refs, level, newData, fns) ==
  IF expression.t \notin {"bool", "text"} THEN Expanded(<<>>, "Expression expected")
  ELSE ExpandParsed(Parse(ExpressionText(expression)), locals, refs, level, newData, fns)

(***************************************************************************)
(* The decoded document                                                    *)
(***************************************************************************)
\* A key of a mapping: its first character when that is "$" or ".", the rest
\* of its name, and its "/..." suffix annotations in order.
K(sigil, base, sfx) == [sigil |-> sigil, base |-> base, sfx |-> sfx]
Sfx(s, pat) == [s |-> s, pat |-> pat]
KeyName(key) == key.sigil \o key.base

Control(name) == K(".", name, <<>>)

\* The values of a mapping's entries.
Text(toks) == [t |-> "text", v |-> toks]
Bool(b) == [t |-> "bool", b |-> b]
Map(id) == [t |-> "map", id |-> id]
E(key, val) == [key |-> key, val |-> val]

HasKey(m, key) == \E i \in 1..Len(m) : m[i].key = key
KeyIndex(m, key) == CHOOSE i \in 1..Len(m) : m[i].key = key
Get(m, key) == m[KeyIndex(m, key)].val
\* yaml[key] = val: in place when the key is there, appended when not.
SetKey(m, key, val) ==
  IF HasKey(m, key) THEN [m EXCEPT ![KeyIndex(m, key)].val = val]
  ELSE Append(m, E(key, val))
\* delete yaml[key]
DeleteKey(m, key) == SelectSeq(m, LAMBDA e : e.key # key)

\* A test that takes whatever .more holds for true.
TruthyAlways(val) == TRUE

\* JavaScript truthiness of an entry's value.
Truthy(val) ==
  CASE val.t = "bool" -> val.b
    [] val.t = "text" -> val.v # <<>>
    [] OTHER -> TRUE

(***************************************************************************)
(* The output trees: objects are functions from keys to tagged values      *)
(***************************************************************************)
JStr(text) == [t |-> "str", v |-> text]
JBool(b) == [t |-> "bool", v |-> b]
JArr(seq) == [t |-> "arr", v |-> seq]
JObj(f) == [t |-> "obj", v |-> f]
JUndefined == [t |-> "undefined", v |-> <<>>]

EmptyObj == [k \in {} |-> JUndefined]
Put(obj, key, val) == (key :> val) @@ obj
Remove(obj, key) == [k \in DOMAIN obj \ {key} |-> obj[k]]
Has(obj, key) == key \in DOMAIN obj

(***************************************************************************)
(* The keyword prefix of a constraint:                                     *)
(*   /^\s*((required|indexed|encrypted(\[.*?\])?)(\s+|$))*/                 *)
(***************************************************************************)
KEYWORDS == {"required", "indexed", "encrypted"}

RECURSIVE SkipWs(_, _)
SkipWs(text, i) == IF i <= Len(text) /\ IsWs(text[i]) THEN SkipWs(text, i + 1) ELSE i

\* The number of lexemes of the keyword at i (0 when there is none): the word,
\* the bracket group of encrypted (which may hold white space: .*? runs up
\* to the closing bracket), and then whitespace or the end of the text.
KeywordLen(text, i) ==
  IF i <= Len(text) /\ text[i].k = "id" /\ text[i].v \in KEYWORDS
  THEN LET Ends(j) == j > Len(text) \/ IsWs(text[j])
           close == SkipWs(text, i + 2)
       IN
       IF text[i].v = "encrypted" /\ i + 1 <= Len(text) /\ text[i + 1].k = "pat" /\
          Ends(i + 2) THEN 2
       ELSE IF text[i].v = "encrypted" /\ i + 1 <= Len(text) /\ text[i + 1].k = "patopen" /\
               close <= Len(text) /\ text[close].k = "patclose" /\ Ends(close + 1)
       THEN close - i + 1
       ELSE IF Ends(i + 1) THEN 1
       ELSE 0
  ELSE 0

\* The index of the first lexeme after the match that starts at i.
RECURSIVE PrefixEnd(_, _)
PrefixEnd(text, i) ==
  IF KeywordLen(text, i) = 0 THEN i
  ELSE PrefixEnd(text, SkipWs(text, i + KeywordLen(text, i)))

\* match[0]
KeywordPrefix(text) == SubSeq(text, 1, PrefixEnd(text, SkipWs(text, 1)) - 1)
\* value.replace(<the prefix>, '')
StripKeywords(text) == SubSeq(text, PrefixEnd(text, SkipWs(text, 1)), Len(text))

\* match[0].split(/\s+/): a keyword is [w, pat], the empty string has w = "".
Keyword(w, pat) == [w |-> w, pat |-> pat]
RECURSIVE SplitWs(_, _, _)
SplitWs(text, i, cur) ==
  IF i > Len(text) THEN <<cur>>
  ELSE IF IsWs(text[i]) THEN <<cur>> \o SplitWs(text, SkipWs(text, i), Keyword("", <<>>))
  ELSE IF text[i].k = "pat" THEN SplitWs(text, i + 1, Keyword(cur.w, <<text[i].v>>))
  ELSE SplitWs(text, i + 1, Keyword(cur.w \o Lexeme(text[i]), <<>>))

Keywords(text) == SplitWs(KeywordPrefix(text), 1, Keyword("", <<>>))

\* keywords.length > 1 && _.uniq(<encrypted[..] read as encrypted>).length !== keywords.length
DuplicatedKeywords(keywords) ==
  /\ Len(keywords) > 1
  /\ Cardinality({keywords[i].w : i \in 1..Len(keywords)}) # Len(keywords)

HasKeyword(keywords, w) ==
  \E i \in 1..Len(keywords) : keywords[i] = Keyword(w, <<>>)

\* _.trim(value)
RECURSIVE TrimRight(_)
TrimRight(text) ==
  IF text # <<>> /\ IsWs(text[Len(text)]) THEN TrimRight(SubSeq(text, 1, Len(text) - 1))
  ELSE text
Trim(text) == TrimRight(SubSeq(text, SkipWs(text, 1), Len(text)))

(***************************************************************************)
(* Compiler.transformBranch                                                *)
(***************************************************************************)
JEnc(f) == [t |-> "enc", v |-> f]

SfxText(part) ==
  "/" \o part.s \o (IF part.pat = <<>> THEN "" ELSE "[" \o part.pat[1] \o "]")
RECURSIVE SfxString(_)
SfxString(sfx) == IF sfx = <<>> THEN "" ELSE SfxText(Head(sfx)) \o SfxString(Tail(sfx))

HasSfx(sfx, s) == \E i \in 1..Len(sfx) : sfx[i].s = s
FirstSfx(sfx, s) == CHOOSE i \in 1..Len(sfx) : sfx[i].s = s /\ \A j \in 1..(i - 1) : sfx[j].s # s
DropSfx(sfx, i) == SubSeq(sfx, 1, i - 1) \o SubSeq(sfx, i + 1, Len(sfx))

\* The two key.replace calls of the default case: the key without its first
\* /encrypted and its first /few annotation, and what they put into encrypt.
StripKey(key) ==
  LET enc == HasSfx(key.sfx, "encrypted")
      i == FirstSfx(key.sfx, "encrypted")
      sfx1 == IF enc THEN DropSfx(key.sfx, i) ELSE key.sfx
      e1 == IF enc
            THEN Put(EmptyObj, "key", IF key.sfx[i].pat = <<>> THEN "#" ELSE key.sfx[i].pat[1])
            ELSE EmptyObj
      few == HasSfx(sfx1, "few")
      sfx2 == IF few THEN DropSfx(sfx1, FirstSfx(sfx1, "few")) ELSE sfx1
      e2 == IF few THEN Put(e1, "few", TRUE) ELSE e1
  IN [key |-> KeyName(key) \o SfxString(sfx2),
      encrypt |-> e2,
      err |-> IF few /\ key.sigil # "$"
              THEN "/few annotation applies only to $wildcard keys" ELSE ""]

\* encrypt.value of the last encrypted keyword ("" when there is none).
RECURSIVE EncryptValue(_)
EncryptValue(keywords) ==
  IF keywords = <<>> THEN ""
  ELSE LET last == keywords[Len(keywords)] IN
    IF last.w = "encrypted"
    THEN (IF last.pat = <<>> \/ last.pat = <<"">> THEN "#" ELSE last.pat[1])
    ELSE EncryptValue(SubSeq(keywords, 1, Len(keywords) - 1))

Quoted(names) == [i \in 1..Len(names) |-> S(names[i])]
RECURSIVE JoinComma(_)
JoinComma(toks) ==
  IF Len(toks) <= 1 THEN toks ELSE <<Head(toks), P(","), W>> \o JoinComma(Tail(toks))

\* 'newData.hasChildren([' + <the quoted names joined by ', '> + '])'
HasChildrenText(names) ==
  <<Id("newData"), P("."), Id("hasChildren"), P("("), P("[")>> \o
  JoinComma(Quoted(names)) \o <<P("]"), P(")")>>

\* What one call of transformBranch hands back: the output node, the document
\* and the refs object as the call left them, and the error thrown if any.
Branch(json, heap, refs, err) == [json |-> json, heap |-> heap, refs |-> refs, err |-> err]

\* An expansion that roots every rule at newData.
NewDataRuleAlways(key) == TRUE

\* The newData argument of expandExpression: true for .value and .write (the
\* fall through), false for .read.
NewDataRule(key) == key # Control("read")

\* Names handed up through a literal key without the key in front.
PrefixedNot(key, names) == names

\* _.map(json[key]['.indexChildrenOn'], indexKey => key + '/' + indexKey)
Prefixed(key, names) == [i \in 1..Len(names) |-> key \o "/" \o names[i]]

\* A parent that leaves .indexChildrenOn on the child.
ConsumeIndexNot(json) == json

\* delete json[key]['.indexChildrenOn'], once the parent has taken the names.
ConsumeIndex(json) == Remove(json, ".indexChildrenOn")

RECURSIVE TransformBranch(_, _, _, _, _, _), Entries(_, _, _, _, _)

\* yaml[key] = this.expandExpression(...)
ExpressionEntry(key, st, any, x) ==
  [st EXCEPT !.moreAllowed = IF any THEN Bool(TRUE) ELSE @,
             !.yaml = IF x.err = "" THEN SetKey(@, key, Text(x.text)) ELSE @,
             !.err = x.err]

\* The text handed to expandExpression: .value without its keyword prefix.
Stripped(key, value) ==
  IF key = Control("value") THEN Text(StripKeywords(value.v)) ELSE value

\* const constraint = value && (_.isString(value) ? value : value['.value'])
Constraint(value, heap) ==
  IF value.t = "text" THEN value.v
  ELSE IF value.t = "map" /\ HasKey(heap[value.id], Control("value"))
  THEN Get(heap[value.id], Control("value")).v
  ELSE <<>>

\* The keywords of a constraint (none when the constraint is falsy).
ConstraintKeywords(constraint) == IF constraint = <<>> THEN <<>> ELSE Keywords(constraint)

\* The encrypt object of a child: from its key, then from its keywords.
Encrypt(k, keywords) ==
  IF EncryptValue(keywords) = "" THEN k.encrypt
  ELSE Put(k.encrypt, "value", EncryptValue(keywords))

\* json[key] with its .encrypt entry.
WithEncrypt(json, encrypt) ==
  IF DOMAIN encrypt # {} THEN Put(json, ".encrypt", JEnc(encrypt)) ELSE json

\* The names json[key]['.indexChildrenOn'] hands up.
Deep(json) == IF Has(json, ".indexChildrenOn") THEN json[".indexChildrenOn"].v ELSE <<>>

\* After the recursive call: json[key], and the names the child hands up.
ChildDone(k, wild, keywords, st, locals, child) ==
  IF child.err # ""
  THEN [st EXCEPT !.err = child.err, !.heap = child.heap, !.refs = child.refs]
  ELSE [st EXCEPT
          !.locals = locals,
          !.hasWildcard = @ \/ wild,
          !.requiredChildren = IF HasKeyword(keywords, "required") THEN Append(@, k.key) ELSE @,
          !.indexedChildren =
            (IF HasKeyword(keywords, "indexed") /\ wild THEN Append(@, ".value") ELSE @) \o
            (IF wild THEN Deep(child.json) ELSE <<>>),
          !.indexedGrandChildren =
            (IF HasKeyword(keywords, "indexed") /\ ~wild THEN Append(@, k.key) ELSE @) \o
            (IF wild THEN <<>>
             ELSE Prefixed(k.key, Deep(child.json))),
          !.json = Put(@, k.key,
                       JObj(ConsumeIndex(WithEncrypt(child.json, Encrypt(k, keywords))))),
          !.heap = child.heap,
          !.refs = child.refs]

\* The default case of the switch: a child key.
ChildEntry(key, k, wild, value, keywords, st, locals, level, fns) ==
  IF k.err # "" THEN [st EXCEPT !.err = k.err]
  ELSE IF key.sigil = "." THEN [st EXCEPT !.err = "Unknown control key"]
  ELSE IF wild /\ st.hasWildcard
  THEN [st EXCEPT !.err = "Only one wildcard allowed per object"]
  ELSE IF DuplicatedKeywords(keywords)
  THEN [st EXCEPT !.err = "Duplicated child property keywords", !.locals = locals,
                  !.hasWildcard = @ \/ wild]
  ELSE IF HasKeyword(keywords, "required") /\ wild
  THEN [st EXCEPT !.err = "Wildcard children cannot be required", !.locals = locals,
                  !.hasWildcard = TRUE]
  ELSE ChildDone(k, wild, keywords, st, locals,
                 TransformBranch(value, locals, st.refs, level + 1, st.heap, fns))

\* locals = locals.concat([key]): the callback's closure variable, for this
\* entry and the entries after it.
Locals(st, k, wild) == IF wild THEN Append(st.locals, k.key) ELSE st.locals

\* One iteration of _.forEach(yaml, ...) on the entry (key, value): st holds
\* the locals of the call.
EntryOf(key, value, st, level, fns) ==
  IF key = Control("value") /\ value.t # "text" THEN [st EXCEPT !.err = "TypeError"]
  ELSE IF key \in {Control("value"), Control("write"), Control("read")} THEN
    ExpressionEntry(key, st,
                    key = Control("value") /\ Trim(Stripped(key, value).v) = <<Id("any")>>,
                    ExpandExpression(Stripped(key, value), st.locals, st.refs, level,
                                     NewDataRule(key), fns))
  ELSE IF key = Control("more") THEN [st EXCEPT !.moreAllowed = value]
  ELSE ChildEntry(key, StripKey(key), key.sigil = "$", value,
                  ConstraintKeywords(Constraint(value, st.heap)), st,
                  Locals(st, StripKey(key), key.sigil = "$"), level, fns)

Entry(key, st, level, fns) == EntryOf(key, Get(st.yaml, key), st, level, fns)

\* The iterations over keys, the own keys of yaml when the loop starts.
Entries(keys, i, st, level, fns) ==
  IF i > Len(keys) \/ st.err # "" THEN st
  ELSE Entries(keys, i + 1, Entry(keys[i], st, level, fns), level, fns)

\* if (_.isString(yaml)) yaml = {'.value': yaml}
AsMapping(yaml, heap) ==
  IF yaml.t = "text" THEN <<E(Control("value"), yaml)>> ELSE heap[yaml.id]

\* The checks of the .ref block: the error thrown, "" when none.
RefError(localRef, refs) ==
  IF localRef \in BUILTINS THEN "ref shadows builtin variable"
  ELSE IF localRef \in DOMAIN refs /\ refs[localRef] # 0 THEN "ref already in scope"
  ELSE ""

\* yaml['.read'] = yaml['.write'] = value; delete yaml['.read/write']
SplitReadWrite(y) ==
  IF HasKey(y, Control("read/write"))
  THEN DeleteKey(SetKey(SetKey(y, Control("write"), Get(y, Control("read/write"))),
                        Control("read"), Get(y, Control("read/write"))),
                 Control("read/write"))
  ELSE y

\* The locals of a call as the loop starts.
Start(y, locals, refs, heap) ==
  [yaml |-> y, json |-> EmptyObj, locals |-> locals, refs |-> refs,
   heap |-> heap, moreAllowed |-> Bool(FALSE), hasWildcard |-> FALSE,
   requiredChildren |-> <<>>, indexedChildren |-> <<>>,
   indexedGrandChildren |-> <<>>, err |-> ""]

KeysOf(y) == [i \in 1..Len(y) |-> y[i].key]

\* The writes into yaml stay in the document when yaml is one of its mappings.
Written(yaml, heap, y) == IF yaml.t = "map" THEN [heap EXCEPT ![yaml.id] = y] ELSE heap

\* json['.read'], json['.write']
ReadWrite(json, y) ==
  IF HasKey(y, Control("read/write"))
  THEN Put(Put(json, ".write", JStr(Get(y, Control("read/write")).v)),
           ".read", JStr(Get(y, Control("read/write")).v))
  ELSE LET r == IF HasKey(y, Control("read"))
                THEN Put(json, ".read", JStr(Get(y, Control("read")).v))
                ELSE json
       IN IF HasKey(y, Control("write"))
          THEN Put(r, ".write", JStr(Get(y, Control("write")).v)) ELSE r

\* The validation string.
Validation(y, requiredChildren) ==
  LET value == IF HasKey(y, Control("value")) THEN Get(y, Control("value")).v ELSE <<>> IN
  IF requiredChildren # <<>>
  THEN (IF value # <<>> THEN <<P("(")>> \o value \o <<P(")"), W, P("&&"), W>>
        ELSE <<>>) \o HasChildrenText(requiredChildren)
  ELSE value

IndexOn(json, indexedChildren) ==
  IF indexedChildren # <<>> THEN Put(json, ".indexOn", JArr(indexedChildren)) ELSE json

IndexChildrenOn(json, indexedGrandChildren) ==
  IF indexedGrandChildren # <<>> THEN Put(json, ".indexChildrenOn", JArr(indexedGrandChildren))
  ELSE json

Validate(json, validation) ==
  IF validation # <<>> THEN Put(json, ".validate", JStr(validation)) ELSE json

\* if (!moreAllowed && !hasWildcard) json.$other = {'.validate': false}
Other(json, moreAllowed, hasWildcard) ==
  IF ~Truthy(moreAllowed) /\ ~hasWildcard
  THEN Put(json, "$other", JObj(Put(EmptyObj, ".validate", JBool(FALSE))))
  ELSE json

\* if (localRef) delete refs[localRef]
DeleteRef(refs, hasRef, localRef) ==
  IF hasRef THEN [n \in DOMAIN refs \ {localRef} |-> refs[n]] ELSE refs

\* After the loop.
BranchEnd(yaml, st, hasRef, localRef) ==
  IF st.err # "" THEN Branch(EmptyObj, Written(yaml, st.heap, st.yaml), st.refs, st.err)
  ELSE IF /\ HasKey(st.yaml, Control("read/write"))
          /\ (HasKey(st.yaml, Control("read")) \/ HasKey(st.yaml, Control("write")))
  THEN Branch(EmptyObj, Written(yaml, st.heap, st.yaml), st.refs,
              "Cannot specify both .read/write and .read or .write")
  ELSE Branch(Other(Validate(IndexChildrenOn(IndexOn(ReadWrite(st.json, st.yaml),
                                                     st.indexedChildren),
                                             st.indexedGrandChildren),
                             Validation(st.yaml, st.requiredChildren)),
                    st.moreAllowed, st.hasWildcard),
              Written(yaml, st.heap, st.yaml),
              DeleteRef(st.refs, hasRef, localRef),
              "")

\* The loop over the mapping y, .ref deleted and .read/write split.
BranchLoop(yaml, y, locals, refs, level, heap, fns, hasRef, localRef) ==
  BranchEnd(yaml, Entries(KeysOf(y), 1, Start(y, locals, refs, heap), level, fns),
            hasRef, localRef)

\* The .ref block, on the mapping y0.
BranchRef(yaml, y0, locals, refs, level, heap, fns) ==
  LET hasRef == HasKey(y0, Control("ref"))
      localRef == IF hasRef THEN Str(Get(y0, Control("ref")).v) ELSE ""
  IN
  IF hasRef /\ RefError(localRef, refs) # ""
  THEN Branch(EmptyObj, heap, refs, RefError(localRef, refs))
  ELSE BranchLoop(yaml, SplitReadWrite(DeleteKey(y0, Control("ref"))), locals,
                  IF hasRef THEN (localRef :> level) @@ refs ELSE refs, level, heap, fns,
                  hasRef, localRef)

TransformBranch(yaml, locals, refs, level, heap, fns) ==
  IF yaml.t \notin {"text", "map"} THEN Branch(EmptyObj, heap, refs, "TypeError")
  ELSE BranchRef(yaml, AsMapping(yaml, heap), locals, refs, level, heap, fns)

(***************************************************************************)
(* Compiler.extractEncryptDirectives                                       *)
(***************************************************************************)
\* [tree, encrypt]: the tree without its .encrypt entries, and the tree of the
\* .encrypt entries (JUndefined when there are none).
\* An extraction that leaves the tree as it is.
ExtractEncryptDirectivesKept(tree) == [tree |-> tree, encrypt |-> JUndefined]

RECURSIVE ExtractEncryptDirectives(_)
ExtractEncryptDirectives(tree) ==
  LET Sub(key) == ExtractEncryptDirectives(tree[key].v)
      Value(key) ==
        IF key = ".encrypt" THEN tree[key]
        ELSE IF tree[key].t = "obj" THEN Sub(key).encrypt
        ELSE JUndefined
      kept == {key \in DOMAIN tree : Value(key).t # "undefined"}
      encryptTree == [key \in kept |-> Value(key)]
      stripped ==
        [key \in DOMAIN tree \ {".encrypt"} |->
           IF tree[key].t = "obj" THEN JObj(Sub(key).tree) ELSE tree[key]]
  IN [tree |-> stripped,
      encrypt |-> IF kept = {} THEN JUndefined ELSE JObj(encryptTree)]

(***************************************************************************)
(* Compiler.defineFunctions                                                *)
(***************************************************************************)
\* A signature as the regular expression of defineFunctions reads it: whether
\* it matches, the name, and the comma-separated pieces between the
\* parentheses, trimmed.
Sig(name, args) == [ok |-> TRUE, name |-> name, args |-> args]
Def(sig, body) == <<[sig |-> sig, body |-> body]>>
Fn(name, args, ast) == [name |-> name, args |-> args, ast |-> ast]

BuiltinDefinitions ==
  << Def(Sig("boolean", <<>>), <<Id("next"), P("."), Id("isBoolean"), P("("), P(")")>>),
     Def(Sig("string", <<>>), <<Id("next"), P("."), Id("isString"), P("("), P(")")>>),
     Def(Sig("number", <<>>), <<Id("next"), P("."), Id("isNumber"), P("("), P(")")>>),
     Def(Sig("any", <<>>), <<Id("true")>>) >>

\* this.functions[name] = {name, args, ast: esprima.parse(body).body[0].expression}
DefineParsed(t, name, args, parsed) ==
  IF ~parsed.ok THEN [t EXCEPT !.err = "SyntaxError"]
  ELSE IF parsed.ast.body = <<>> THEN [t EXCEPT !.err = "TypeError"]
  ELSE [t EXCEPT !.fns = Append(@, Fn(name, args, parsed.ast.body[1].expression))]

\* _.compact(_.map((match[2] || '').split(','), _.trim))
Compact(args) == SelectSeq(args, LAMBDA a : a # "")

\* A definition that is entered whatever the table holds.
DefineAgain(t, entry) ==
  DefineParsed(t, entry.sig.name, Compact(entry.sig.args), Parse(entry.body))

\* [fns, err]: the table after one (body, signature) pair.
Define(t, entry) ==
  IF ~entry.sig.ok THEN [t EXCEPT !.err = "Invalid function signature"]
  ELSE IF \E i \in 1..Len(Compact(entry.sig.args)) : Compact(entry.sig.args)[i] \in BUILTINS
  THEN [t EXCEPT !.err = "Argument name shadows builtin variable"]
  ELSE IF entry.sig.name \in FnNames(t.fns) \cup ObjectPrototype
  THEN [t EXCEPT !.err = "Duplicate function definition"]
  ELSE DefineParsed(t, entry.sig.name, Compact(entry.sig.args), Parse(entry.body))

RECURSIVE DefineAll(_, _, _, _)
DefineAll(list, i, j, t) ==
  IF t.err # "" \/ i > Len(list) THEN t
  ELSE IF j > Len(list[i]) THEN DefineAll(list, i + 1, 1, t)
  ELSE DefineAll(list, i, j + 1, Define(t, list[i][j]))

\* One execution of the body of while (changed): every function's tree is
\* transformed once, in the order of the table, against the table as it is.
RECURSIVE TransformFunctions(_, _, _)

\* fn.ast = this.transformAst(fn.ast, fn.args); changed = changed || this.changed
TransformedFunction(fns, i, changed, t) ==
  IF t.err # "" THEN [fns |-> fns, changed |-> changed, err |-> t.err]
  ELSE TransformFunctions([fns EXCEPT ![i].ast = t.node], i + 1, changed \/ t.changed)

TransformFunctions(fns, i, changed) ==
  IF i > Len(fns) THEN [fns |-> fns, changed |-> changed, err |-> ""]
  ELSE TransformedFunction(fns, i, changed,
                           TransformAst(fns[i].ast, fns[i].args, NoRefs, 0, FALSE, fns))

(***************************************************************************)
(* Documents                                                               *)
(***************************************************************************)
\* A document: source.root, source.functions (absent or a list of
\* definitions) and the mappings of the decoded tree.
Doc(root, functions, heap) == [root |-> root, functions |-> functions, heap |-> heap]
NoFunctions == [defined |-> FALSE, list |-> <<>>]
Functions(list) == [defined |-> TRUE, list |-> list]

\* Rule expressions and constraints of the documents below.
TString == <<Id("string")>>
TNumber == <<Id("number")>>
TAny == <<Id("any")>>
TFalse == <<Id("false")>>
TRequiredString == <<Id("required"), W, Id("string")>>
TRequiredNumber == <<Id("required"), W, Id("number")>>
TIndexedNumber == <<Id("indexed"), W, Id("number")>>
TIndexedString == <<Id("indexed"), W, Id("string")>>
TEncryptedString == <<Id("encrypted"), W, Id("string")>>
TUsesW == <<Id("auth"), P("."), Id("uid"), W, P("=="), W, Id("$w")>>
TAdmin == <<Id("auth"), P("."), Id("uid"), W, P("=="), W, S("admin")>>
TUsesRef == <<Id("r"), P("."), Id("owner"), W, P("=="), W, Id("auth"), P("."), Id("uid")>>

Lit0(name) == K("", name, <<>>)
Wild(name) == K("$", name, <<>>)

\* The sequences of at most n entries of pool with pairwise different keys.
Mappings(pool, n) ==
  {m \in UNION {[1..len -> pool] : len \in 0..n} :
     \A i, j \in 1..Len(m) : i # j => m[i].key # m[j].key}

\* The number of entries of the generated mappings.
MaxEntries == 3
\* The number of definitions of the generated function lists.
MaxDefs == 2

\* One mapping, its entries in every order: closed and open nodes, a wildcard
\* with expressions that use its name, the read and write rules, required
\* children.
FlatPool ==
  { E(Control("value"), Text(TAny)),
    E(Control("more"), Bool(FALSE)),
    E(Control("more"), Bool(TRUE)),
    E(Control("read"), Text(TUsesW)),
    E(Control("read/write"), Text(TAdmin)),
    E(Control("write"), Text(TFalse)),
    E(Wild("w"), Text(TUsesW)),
    E(Lit0("a"), Text(TRequiredString)),
    E(Lit0("b"), Text(TUsesW)),
    E(K("", "c", <<Sfx("encrypted", <<>>)>>), Text(TRequiredNumber)) }

FlatDocuments == {Doc(Map(1), NoFunctions, <<m>>) : m \in Mappings(FlatPool, MaxEntries)}

\* Three levels: a ref bound at the root or below it, wildcard and literal
\* keys on the way down, an indexed or a plain leaf, or a mapping with a
\* .read/write rule that uses the ref.
MaybeRef(present) == IF present THEN <<E(Control("ref"), Text(<<Id("r")>>))>> ELSE <<>>

MiddleControls ==
  { <<>>, <<E(Control("read/write"), Text(TUsesRef))>>, <<E(Control("more"), Bool(TRUE))>>,
    <<E(Control("value"), Text(TAny))>> }

Leaves ==
  { <<Text(TIndexedNumber), <<>>>>,
    <<Text(TRequiredString), <<>>>>,
    <<Text(TUsesRef), <<>>>>,
    <<Map(3), <<E(Control("read/write"), Text(TUsesRef)), E(Lit0("d"), Text(TIndexedString))>>>>,
    <<Map(3), <<E(Control("read/write"), Text(TAdmin)), E(Control("value"), Text(TAny))>>>> }

NestedDocuments ==
  { Doc(Map(1), NoFunctions,
        << MaybeRef(refAt = 0) \o <<E(k1, Map(2))>>,
           MaybeRef(refAt = 1) \o ctl \o <<E(k2, leaf[1])>>,
           leaf[2] >>) :
      refAt \in {0, 1, 2}, k1 \in {Wild("w"), Lit0("a")}, k2 \in {Wild("v"), Lit0("c")},
      ctl \in MiddleControls, leaf \in Leaves }

\* A mapping under two keys (a YAML anchor and its alias): beside each other,
\* and at two depths.
Shared ==
  { <<E(Control("value"), Text(TRequiredString))>>,
    <<E(Control("value"), Text(TIndexedNumber))>>,
    <<E(Control("value"), Text(TEncryptedString))>>,
    <<E(Control("value"), Text(TAny))>>,
    <<E(Control("read/write"), Text(TAdmin))>>,
    <<E(Control("ref"), Text(<<Id("r")>>)), E(Lit0("c"), Text(TUsesRef))>>,
    <<E(Control("ref"), Text(<<Id("r")>>)), E(Control("read/write"), Text(TUsesRef))>>,
    <<E(Lit0("c"), Text(TRequiredString)), E(Lit0("d"), Text(TNumber))>> }

AliasDocuments ==
  { Doc(Map(1), NoFunctions, << <<E(k1, Map(2)), E(Lit0("b"), Map(2))>>, shared >>) :
      k1 \in {Wild("w"), Lit0("a")}, shared \in Shared }
  \cup
  { Doc(Map(1), NoFunctions,
        << <<E(Lit0("a"), Map(2)), E(k1, Map(3))>>, shared, <<E(Lit0("b"), Map(2))>> >>) :
      k1 \in {Wild("w"), Lit0("e")}, shared \in Shared }

\* Function tables: names that call each other, in a cycle or not, a function
\* with a parameter, and a function that hands it an argument built from its
\* own parameter, of the same name or of another, and a function under
\* the name of a built-in variable.
DefPool ==
  { [sig |-> Sig("a", <<>>), body |-> <<Id("b")>>],
    [sig |-> Sig("b", <<>>), body |-> <<Id("a")>>],
    [sig |-> Sig("a", <<>>), body |-> <<Id("a")>>],
    [sig |-> Sig("b", <<>>), body |-> <<Id("string")>>],
    [sig |-> Sig("f", <<"x">>), body |-> <<Id("x"), W, P("=="), W, Id("auth"), P("."), Id("uid")>>],
    [sig |-> Sig("b", <<>>),
     body |-> <<Id("f"), P("("), Id("next"), P("."), Id("owner"), P(")")>>],
    [sig |-> Sig("g", <<"x">>),
     body |-> <<Id("f"), P("("), Id("x"), W, P("+"), W, N("1"), P(")")>>],
    [sig |-> Sig("g", <<"y">>),
     body |-> <<Id("f"), P("("), Id("y"), W, P("+"), W, N("1"), P(")")>>],
    [sig |-> Sig("auth", <<>>), body |-> <<Id("true")>>] }

FunctionLists ==
  {[i \in 1..Len(l) |-> <<l[i]>>] : l \in UNION {[1..len -> DefPool] : len \in 0..MaxDefs}}

\* The uses of a function in a rule: a bare name, a call, a call argument and
\* the object of a member access.
Uses ==
  { <<Id("a")>>, <<Id("b")>>, <<Id("string")>>,
    <<Id("g"), P("("), Id("next"), P("."), Id("n"), P(")")>>,
    <<Id("f"), P("("), Id("b"), P(")")>>,
    <<Id("b"), P("."), Id("length"), W, P(">"), W, Id("number"), P("."), Id("length")>>,
    TAdmin }

FunctionDocuments ==
  { Doc(Map(1), Functions(list), << <<E(Lit0("v"), Text(use))>> >>) :
      list \in FunctionLists, use \in Uses }

\* .ref at up to three depths, under a plain or a $ name, and a rule at the
\* third depth that uses one of the names or none.
TUsesDollarRef == <<Id("$r"), P("."), Id("owner"), W, P("=="), W, Id("auth"), P("."), Id("uid")>>

RefChoices == {<<>>, <<E(Control("ref"), Text(<<Id("r")>>))>>, <<E(Control("ref"), Text(<<Id("$r")>>))>>}

RefDocuments ==
  { Doc(Map(1), NoFunctions,
        << ref0 \o <<E(k1, Map(2))>>,
           ref1 \o <<E(Lit0("c"), Map(3))>>,
           ref2 \o <<E(Control("read"), Text(use))>> >>) :
      ref0 \in RefChoices, ref1 \in RefChoices, ref2 \in RefChoices,
      k1 \in {Wild("w"), Lit0("a")}, use \in {TUsesRef, TUsesDollarRef, TAdmin} }

\* .ref at the root and at a child, and a sibling of the child, before or
\* after it, whose rule uses the name r or no name.
TUsesQ == <<Id("q"), P("."), Id("owner"), W, P("=="), W, Id("auth"), P("."), Id("uid")>>

SiblingChoices == {<<>>, <<E(Control("ref"), Text(<<Id("r")>>))>>, <<E(Control("ref"), Text(<<Id("q")>>))>>}

SiblingDocuments ==
  { Doc(Map(1), NoFunctions,
        << ref0 \o (IF first THEN <<E(Lit0("a"), Map(2)), E(Lit0("b"), Map(3))>>
                    ELSE <<E(Lit0("b"), Map(3)), E(Lit0("a"), Map(2))>>),
           ref1 \o <<E(Control("write"), Text(TAdmin))>>,
           <<E(Control("read"), Text(use))>> >>) :
      ref0 \in SiblingChoices, ref1 \in SiblingChoices, first \in BOOLEAN,
      use \in {TUsesRef, TUsesQ, TAdmin} }

\* One rule under a wildcard: member accesses on snapshots, dotted and
\* bracketed, as values, as indexes, as the object of a method call and
\* already ending in .val(), and the plain built-in values.
TQuery == <<Id("query"), P("."), Id("orderByKey")>>
TNow == <<Id("now"), W, P(">"), W, N("0")>>
TOwner == <<Id("next"), P("."), Id("owner"), W, P("=="), W, Id("auth"), P("."), Id("uid")>>
TUsers ==
  <<Id("root"), P("."), Id("users"), P("["), Id("auth"), P("."), Id("uid"), P("]"), P("."),
    Id("admin"), W, P("=="), W, Id("true")>>
TMethod == <<Id("next"), P("."), Id("name"), P("."), Id("isString"), P("("), P(")")>>
TIndex ==
  <<Id("data"), P("["), Id("next"), P("."), Id("id"), P("]"), W, P("=="), W, Id("$w")>>
TAuthIndex == <<Id("auth"), P("["), Id("prev"), P("]"), W, P("=="), W, Id("next")>>
TVal ==
  <<Id("next"), P("."), Id("parent"), P("("), P(")"), P("."), Id("child"), P("("), S("x"),
    P(")"), P("."), Id("val"), P("("), P(")"), W, P("=="), W, N("1")>>
TAnyMember == <<Id("auth"), P("."), Id("any"), W, P("&&"), W, Id("next"), P("."), Id("string")>>
TFooBar == <<Id("data"), P("."), Id("foo"), P("["), Id("$w"), P("]")>>


\* Accesses on env: dotted and bracketed, of a variable that is set and of one
\* that is not, and with an index that is no literal.
EnvDot(name, value) == <<Id("env"), P("."), Id(name), W, P("=="), W, S(value)>>
EnvBracket(index, value) == <<Id("env"), P("[")>> \o index \o <<P("]"), W, P("=="), W, S(value)>>

EnvLiteral ==
  { EnvDot("DATASTORE", "dev"), EnvBracket(<<S("DATASTORE")>>, "dev"),
    EnvDot("UNSET", ""), EnvBracket(<<S("UNSET")>>, "") }

\* The index an access on env itself.
EnvNested == EnvBracket(<<Id("env"), P("."), Id("DATASTORE")>>, "")

EnvComputed ==
  { EnvBracket(<<Id("auth"), P("."), Id("uid")>>, "dev"), EnvBracket(<<Id("$w")>>, "dev"),
    EnvBracket(<<Id("next"), P("."), Id("name")>>, "dev") }

\* Calls of oneOf: one argument and three, an argument that is a snapshot, a
\* call beside another condition, and a disjunction as an argument.
OneOfCall(args) == <<Id("oneOf"), P("(")>> \o args \o <<P(")")>>

OneOfs ==
  { OneOfCall(<<S("a")>>),
    OneOfCall(<<S("a"), P(","), W, S("b"), P(","), W, S("c")>>),
    OneOfCall(<<Id("prev"), P("."), Id("x"), P(","), W, S("b")>>),
    OneOfCall(<<S("a"), P(","), W, S("b")>>) \o <<W, P("&&"), W>> \o TAdmin,
    OneOfCall(<<Id("auth"), P("."), Id("a"), W, P("||"), W, Id("auth"), P("."), Id("b"), P(","),
                W, N("1")>>) }

Expressions ==
  OneOfs \cup
  {TQuery, TNow, TOwner, TUsers, TMethod, TIndex, TAuthIndex, TVal, TAnyMember, TFooBar}
  \cup EnvLiteral \cup EnvComputed \cup {EnvNested}

ExpressionDocuments ==
  { Doc(Map(1), NoFunctions, << <<E(Wild("w"), Map(2))>>, <<E(key, Text(x))>> >>) :
      key \in {Control("read"), Control("write"), Control("value")}, x \in Expressions }

\* Constraints of a child: at most two keywords, with or without white space
\* before the first, one or two spaces between them, and a body or none.
KeywordTexts ==
  {<<Id("required")>>, <<Id("indexed")>>, <<Id("encrypted")>>, <<Id("encrypted"), Pat("x")>>}

Spaces == {<<W>>, <<W, W>>}

KeywordPrefixes ==
  {<<>>} \cup KeywordTexts \cup
  {k1 \o sp \o k2 : k1 \in KeywordTexts, sp \in Spaces, k2 \in KeywordTexts}

Constraints ==
  { lead \o kws \o (IF kws # <<>> /\ body # <<>> THEN <<W>> ELSE <<>>) \o body \o trail :
      lead \in {<<>>, <<W>>}, kws \in KeywordPrefixes, body \in {<<>>, TString},
      trail \in {<<>>, <<W>>} }

KeywordDocuments ==
  { Doc(Map(1), NoFunctions,
        << <<E(Wild("w"), Map(2))>>, <<E(Lit0("a"), Text(c))>> >>) : c \in Constraints }

\* Encryption annotations at two depths: /encrypted and /few on wildcard and
\* literal keys, with and without a pattern, and the encrypted keyword in the
\* constraint of a leaf or in the .value of a mapping.
TEncryptedNumber == <<Id("encrypted"), Pat("x"), W, Id("number")>>
TEncryptedSpaced == <<Id("encrypted"), PatOpen("x"), W, PatClose("y"), W, Id("string")>>

EncryptKeys1 ==
  { Wild("w"), K("$", "w", <<Sfx("few", <<>>)>>), K("$", "w", <<Sfx("encrypted", <<>>)>>),
    K("$", "w", <<Sfx("encrypted", <<"x">>), Sfx("few", <<>>)>>),
    Lit0("a"), K("", "a", <<Sfx("encrypted", <<>>)>>), K("", "a", <<Sfx("few", <<>>)>>) }

EncryptKeys2 ==
  { Lit0("c"), K("", "c", <<Sfx("encrypted", <<"x">>)>>), K("$", "v", <<Sfx("few", <<>>)>>) }

EncryptLeaves ==
  { <<Text(TString), <<>>>>,
    <<Text(TEncryptedString), <<>>>>,
    <<Text(TEncryptedNumber), <<>>>>,
    <<Text(TEncryptedSpaced), <<>>>>,
    <<Map(3), <<E(Control("value"), Text(TEncryptedString)), E(Control("more"), Bool(TRUE))>>>>,
    <<Map(3), <<E(Control("read"), Text(TAdmin)), E(Lit0("d"), Text(TEncryptedString))>>>> }

EncryptDocuments ==
  { Doc(Map(1), NoFunctions, << <<E(k1, Map(2))>>, <<E(k2, leaf[1])>>, leaf[2] >>) :
      k1 \in EncryptKeys1, k2 \in EncryptKeys2, leaf \in EncryptLeaves }

\* A child that is any: as a leaf, with keywords before it, and as a mapping
\* with .more before or after its .value and with children of its own.
TRequiredAny == <<Id("required"), W, Id("any")>>

AnyPool ==
  { E(Control("value"), Text(TAny)),
    E(Control("value"), Text(<<Id("indexed"), W, Id("any"), W>>)),
    E(Control("more"), Bool(FALSE)),
    E(Control("more"), Bool(TRUE)),
    E(Lit0("c"), Text(TString)),
    E(Lit0("c"), Text(TRequiredString)) }

AnyDocuments ==
  { Doc(Map(1), NoFunctions, << <<E(k, Map(2))>>, m >>) :
      k \in {Lit0("a"), Wild("w")}, m \in Mappings(AnyPool, MaxEntries) }
  \cup
  { Doc(Map(1), NoFunctions, << <<E(Lit0("a"), Text(x))>> >>) : x \in {TAny, TRequiredAny} }

\* Function lists with a name defined twice, in two definitions or in one
\* mapping beside another, with and without parameters, with a function
\* named like a value type, like an inherited property of the table, like a
\* method of a snapshot, and with names that are all different; and rules
\* that use a name or call one.
TypeNames == {"boolean", "string", "number", "any"}

Pair(name, args, body) == [sig |-> Sig(name, args), body |-> body]

TCallsParent == <<Id("parent"), P("("), Id("next"), P(")")>>

NamedLists ==
  { << <<Pair(n, <<>>, <<Id("true")>>)>> >> : n \in TypeNames \cup {"toString", "a"} } \cup
  { << <<Pair("parent", <<"x">>, <<Id("x"), W, P("=="), W, N("1")>>)>> >> } \cup
  { << <<Pair("a", <<>>, <<Id("true")>>)>>, <<Pair(n, <<"x">>, <<Id("x")>>)>> >> :
      n \in {"a", "b", "number"} } \cup
  { << <<Pair("a", <<>>, <<Id("true")>>), Pair("b", <<>>, <<Id("a")>>)>>,
       <<Pair(n, <<>>, <<Id("false")>>)>> >> : n \in {"a", "b", "c"} }

NamedDocuments ==
  { Doc(Map(1), Functions(list), << <<E(Lit0("v"), Text(use))>> >>) :
      list \in NamedLists, use \in {<<Id("a")>>, TString, TCallsParent} }

Documents ==
  NamedDocuments \cup AnyDocuments \cup FlatDocuments \cup NestedDocuments \cup AliasDocuments \cup FunctionDocuments \cup
  RefDocuments \cup SiblingDocuments \cup ExpressionDocuments \cup KeywordDocuments \cup EncryptDocuments

(***************************************************************************)
(* Compiler.transform, and a caller that compiles a document twice         *)
(***************************************************************************)
VARIABLES
  source,    \* the document handed to transform, as the calls so far left it
  original,  \* the document of the running call as it was decoded
  functions, \* this.functions
  changed,   \* the changed flag of defineFunctions' loop
  passes,    \* the iterations the running call has made of that loop, or of the
             \* worklist loop of a walk that does not end, modulo 2 (a loop
             \* that never ends is a cycle of states)
  tree,      \* the result of transformBranch on the root
  pc,        \* where the running call of transform is
  outcome,   \* what the last finished call returned or threw
  previous,  \* the outcome of the call before it
  calls,     \* the number of calls started
  handed     \* what the running call was handed: the "first" document, the
             \* "same" object again, a "fresh" decoding, or a "reordered" one

vars == <<source, original, functions, changed, passes, tree, pc, outcome, previous, calls, handed>>

NoOutcome == [status |-> "none", err |-> "", rules |-> EmptyObj, firecrypt |-> JUndefined]
Thrown(err) == [status |-> "thrown", err |-> err, rules |-> EmptyObj, firecrypt |-> JUndefined]
Returned(rules, firecrypt) ==
  [status |-> "returned", err |-> "", rules |-> rules, firecrypt |-> firecrypt]

Init ==
  /\ source \in Documents
  /\ original = source
  /\ functions = <<>>
  /\ changed = FALSE
  /\ passes = 0
  /\ tree = EmptyObj
  /\ pc = "defineFunctions"
  /\ outcome = NoOutcome
  /\ previous = NoOutcome
  /\ calls = 1
  /\ handed = "first"

\* defineFunctions, up to its loop: the built-ins are pushed onto
\* source.functions, and the table is filled from that list.
Pushed(doc) == doc.functions.list \o BuiltinDefinitions

Built(t) ==
  /\ functions' = t.fns
  /\ IF t.err # ""
     THEN pc' = "thrown" /\ outcome' = Thrown(t.err) /\ changed' = FALSE
     ELSE pc' = "fixpoint" /\ outcome' = outcome /\ changed' = TRUE

BuildTable ==
  /\ pc = "defineFunctions"
  /\ source' = [source EXCEPT !.functions = Functions(Pushed(source))]
  /\ Built(DefineAll(Pushed(source), 1, 1, [fns |-> <<>>, err |-> ""]))
  /\ UNCHANGED <<original, passes, tree, previous, calls, handed>>

\* An error leaves transform.  The walk of an inlining that does not end
\* (see Substitute) keeps the call inside estraverse.replace instead.
Raised(err) ==
  IF err = "diverges" THEN pc' = "walking" /\ outcome' = outcome
  ELSE pc' = "thrown" /\ outcome' = Thrown(err)

\* One iteration of while (changed).
Passed(r) ==
  /\ functions' = r.fns
  /\ changed' = r.changed
  /\ IF r.err # "" THEN Raised(r.err)
     ELSE pc' = "fixpoint" /\ outcome' = outcome

FixpointPass ==
  /\ pc = "fixpoint"
  /\ changed
  /\ Passed(TransformFunctions(functions, 1, FALSE))
  /\ passes' = (passes + 1) % 2
  /\ UNCHANGED <<source, original, tree, previous, calls, handed>>

\* The loop ends; transformBranch on the root and the check of its
\* .indexChildrenOn.
Rooted(b) ==
  /\ source' = [source EXCEPT !.heap = b.heap]
  /\ IF b.err # ""
     THEN Raised(b.err) /\ tree' = tree
     ELSE IF Has(b.json, ".indexChildrenOn")
     THEN /\ pc' = "thrown"
          /\ outcome' = Thrown("Indexed attributes must be nested under a wildard key")
          /\ tree' = tree
     ELSE pc' = "extract" /\ outcome' = outcome /\ tree' = b.json

TransformRoot ==
  /\ pc = "fixpoint"
  /\ ~changed
  /\ Rooted(TransformBranch(source.root, <<>>, NoRefs, 0, source.heap, functions))
  /\ UNCHANGED <<original, functions, changed, passes, previous, calls, handed>>

\* extractEncryptDirectives and the return of transform.
Extracted(x) ==
  /\ tree' = x.tree
  /\ outcome' = Returned(x.tree, x.encrypt)

ExtractEncrypt ==
  /\ pc = "extract"
  /\ Extracted(ExtractEncryptDirectives(tree))
  /\ pc' = "returned"
  /\ UNCHANGED <<source, original, functions, changed, passes, previous, calls, handed>>

\* The document with two neighbouring entries of one mapping exchanged.
Swap(m, i) == [m EXCEPT ![i] = m[i + 1], ![i + 1] = m[i]]
Reordered(doc, id, i) == [doc EXCEPT !.heap[id] = Swap(@, i)]

\* exports.transform a second time: on the object the first call was handed,
\* on a fresh decoding of the same document, or on a decoding of the document
\* with two entries of a mapping exchanged.
CallAgain ==
  /\ pc \in {"returned", "thrown"}
  /\ calls = 1
  /\ \/ handed' = "same" /\ source' = source /\ original' = original
     \/ handed' = "fresh" /\ source' = original /\ original' = original
     \/ /\ handed' = "reordered"
        /\ \E id \in 1..Len(original.heap) :
             \E i \in 1..(Len(original.heap[id]) - 1) :
               /\ source' = Reordered(original, id, i)
               /\ original' = source'
  /\ previous' = outcome
  /\ outcome' = NoOutcome
  /\ calls' = calls + 1
  /\ pc' = "defineFunctions"
  /\ functions' = <<>>
  /\ changed' = FALSE
  /\ passes' = 0
  /\ tree' = EmptyObj

\* One iteration of the worklist loop of the inner estraverse.replace, in an
\* inlining whose walk finds a parameter to replace in every node it puts in
\* place: the loop has always more to visit.
SubstitutionWalk ==
  /\ pc = "walking"
  /\ passes' = (passes + 1) % 2
  /\ UNCHANGED <<source, original, functions, changed, tree, pc, outcome, previous, calls,
                 handed>>

Next ==
  BuildTable \/ FixpointPass \/ TransformRoot \/ ExtractEncrypt \/ SubstitutionWalk \/ CallAgain

Spec == Init /\ [][Next]_vars

\* A step of a call that has not ended, as pc and passes show it: such a call
\* can always take its next step, and each of its steps changes pc or passes.
Running ==
  /\ pc \in {"defineFunctions", "fixpoint", "extract", "walking"}
  /\ pc' \in {"defineFunctions", "fixpoint", "extract", "walking", "returned", "thrown"}
  /\ passes' \in {0, 1}

\* transform is one synchronous call: once called it keeps running until it
\* returns or throws.  Whether the caller calls again is left open.
FairSpec == Spec /\ WF_<<pc, passes>>(Running)

(***************************************************************************)
(* Reading a document as its author wrote it                               *)
(***************************************************************************)
\* The rule node a value of the document stands for.
NodeOf(doc, val) == AsMapping(val, doc.heap)

IsChild(e) == e.key.sigil # "." /\ e.val.t \in {"text", "map"}
IsWild(e) == e.key.sigil = "$"
ChildName(e) == StripKey(e.key).key

Mentions(text, name) == \E i \in 1..Len(text) : text[i] = Id(name)

HasWildChild(m) == \E i \in 1..Len(m) : IsChild(m[i]) /\ IsWild(m[i])
MoreTrue(m) == HasKey(m, Control("more")) /\ Get(m, Control("more")) = Bool(TRUE)
ValueAny(m) ==
  /\ HasKey(m, Control("value"))
  /\ Get(m, Control("value")).t = "text"
  /\ Trim(StripKeywords(Get(m, Control("value")).v)) = <<Id("any")>>

\* transform has returned a rules tree for the document in original.
Compiled == pc = "returned" /\ handed # "same"
\* transform has ended, one way or the other, on the document in original.
Ended == pc \in {"returned", "thrown"} /\ handed # "same"

Closed == JObj(Put(EmptyObj, ".validate", JBool(FALSE)))

(***************************************************************************)
(* C1: closed world by default                                             *)
(***************************************************************************)
\* Every node below val has $other: {'.validate': false} unless it is open:
\* it has a wildcard child or a true .more, or, when anyOpens, its .value is
\* any after the keyword prefix.
RECURSIVE ClosedWorld(_, _, _, _)
ClosedWorld(doc, val, json, anyOpens) ==
  LET m == NodeOf(doc, val)
      open == HasWildChild(m) \/ MoreTrue(m) \/ (anyOpens /\ ValueAny(m))
  IN /\ ~open => Has(json, "$other") /\ json["$other"] = Closed
     /\ \A i \in 1..Len(m) :
          IsChild(m[i]) => ClosedWorld(doc, m[i].val, json[ChildName(m[i])].v, anyOpens)

\* C1 as the specification states it: every node compiled from a rule node
\* that has neither a wildcard child nor .more: true contains
\* $other: {'.validate': false}.
C1_ClosedUnlessWildcardOrMore ==
  Compiled => ClosedWorld(original, original.root, outcome.rules, FALSE)

\* C1, amended: every node compiled from a rule node that has neither a
\* wildcard child, nor a true .more, nor a .value that is any after its
\* keyword prefix, contains $other: {'.validate': false}.
C1_ClosedUnlessWildcardMoreOrAny ==
  Compiled => ClosedWorld(original, original.root, outcome.rules, TRUE)

\* A compiled root with no wildcard child, no true .more and no .value any,
\* closed by $other.
C1_Witness ==
  /\ Compiled
  /\ ~HasWildChild(NodeOf(original, original.root))
  /\ ~MoreTrue(NodeOf(original, original.root))
  /\ ~ValueAny(NodeOf(original, original.root))
  /\ HasKey(NodeOf(original, original.root), Control("more"))
  /\ outcome.rules["$other"] = Closed

(***************************************************************************)
(* C2: recursive functions                                                 *)
(***************************************************************************)
\* The (body, signature) pairs of source.functions, in order.
RECURSIVE Pairs(_)
Pairs(list) == IF list = <<>> THEN <<>> ELSE Head(list) \o Pairs(Tail(list))

FunctionNames(doc) == {Pairs(doc.functions.list)[i].sig.name : i \in 1..Len(Pairs(doc.functions.list))}

\* The body of f mentions g, and g is not one of f's parameters.
CallsDirectly(doc, f, g) ==
  \E i \in 1..Len(Pairs(doc.functions.list)) :
    LET d == Pairs(doc.functions.list)[i] IN
      d.sig.name = f /\ Mentions(d.body, g) /\ ~Includes(d.sig.args, g)

\* The functions reached from the set seen by at most n calls.
RECURSIVE Reached(_, _, _)
Reached(doc, seen, n) ==
  IF n = 0 THEN seen
  ELSE Reached(doc, seen \cup {g \in FunctionNames(doc) :
                                 \E f \in seen : CallsDirectly(doc, f, g)}, n - 1)

\* Some function of the document calls itself, directly or through others.
Recursive(doc) ==
  \E f \in FunctionNames(doc) :
    \E g \in FunctionNames(doc) :
      /\ CallsDirectly(doc, f, g)
      /\ f \in Reached(doc, {g}, Cardinality(FunctionNames(doc)))

\* C2: on a document with a recursive function, directly or mutually
\* recursive, transform ends by throwing an error; the loop of
\* defineFunctions does not run forever.
C2_RecursionThrows == Recursive(original) => <>(pc = "thrown")

(***************************************************************************)
(* C3: two compilations of one document                                    *)
(***************************************************************************)
SameOutcome(o1, o2) ==
  /\ o1.status = o2.status
  /\ o1.err = o2.err
  /\ o1.status = "returned" =>
       /\ o1.rules = o2.rules
       /\ o1.firecrypt.t = o2.firecrypt.t
       /\ o1.firecrypt.t = "obj" => o1.firecrypt.v = o2.firecrypt.v

\* C3: the second of two calls of transform on a document ends as the first
\* did, with the same rules and firecrypt or the same error message, also
\* when it is handed the very object the first call was handed.
C3_SecondCallSame ==
  (calls = 2 /\ handed \in {"same", "fresh"} /\ pc \in {"returned", "thrown"})
    => SameOutcome(outcome, previous)

(***************************************************************************)
(* C4: the scope of a wildcard name                                        *)
(***************************************************************************)
\* The rule expressions of the node itself.  .read and .write beside a
\* .read/write are left out: what becomes of them is C5's matter.
OwnExpression(m, j) ==
  /\ m[j].val.t = "text"
  /\ \/ m[j].key \in {Control("value"), Control("read/write")}
     \/ /\ m[j].key \in {Control("read"), Control("write")}
        /\ ~HasKey(m, Control("read/write"))

\* Some expression at or below val mentions name.
RECURSIVE UsedIn(_, _, _)
UsedIn(doc, val, name) ==
  LET m == NodeOf(doc, val) IN
    \E j \in 1..Len(m) :
      \/ OwnExpression(m, j) /\ Mentions(m[j].val.v, name)
      \/ IsChild(m[j]) /\ UsedIn(doc, m[j].val, name)

\* At or below val a wildcard name, not bound further up, is mentioned by an
\* expression of the wildcard's parent or of one of the wildcard's siblings.
RECURSIVE UsedOutOfScope(_, _, _)
UsedOutOfScope(doc, val, scope) ==
  LET m == NodeOf(doc, val) IN
    \E i \in 1..Len(m) :
      /\ IsChild(m[i])
      /\ \/ /\ IsWild(m[i])
            /\ ChildName(m[i]) \notin scope
            /\ \E j \in 1..Len(m) :
                 /\ j # i
                 /\ \/ OwnExpression(m, j) /\ Mentions(m[j].val.v, ChildName(m[i]))
                    \/ IsChild(m[j]) /\ UsedIn(doc, m[j].val, ChildName(m[i]))
         \/ UsedOutOfScope(doc, m[i].val,
                           IF IsWild(m[i]) THEN scope \cup {ChildName(m[i])} ELSE scope)

\* C4: a document in which the parent of a wildcard child, or a sibling of
\* it, uses the wildcard's name does not compile, wherever the wildcard key
\* stands among the entries (transform throws Unknown reference).
C4_WildcardScoped == Compiled => ~UsedOutOfScope(original, original.root, {})

(***************************************************************************)
(* C5: .read/write beside .read or .write                                  *)
(***************************************************************************)
Conflicting(m) ==
  /\ HasKey(m, Control("read/write"))
  /\ HasKey(m, Control("read")) \/ HasKey(m, Control("write"))

\* C5: a document with a node that carries .read/write together with .read
\* or .write does not compile (transform throws Cannot specify both ...).
C5_ConflictRejected ==
  Compiled => \A id \in 1..Len(original.heap) : ~Conflicting(original.heap[id])

(***************************************************************************)
(* C6: the split of .read/write                                            *)
(***************************************************************************)
\* The names the .ref keys of the document bind.
RefNames(doc) ==
  {Str(Get(doc.heap[id], Control("ref")).v) :
     id \in {i \in 1..Len(doc.heap) : HasKey(doc.heap[i], Control("ref"))}}

MentionsRef(doc, text) == \E name \in RefNames(doc) : Mentions(text, name)

\* read and write are one text but for their roots: data in read where write
\* has newData, at one place or more.
RootedApart(read, write) ==
  /\ Len(read) = Len(write)
  /\ \A i \in 1..Len(read) :
       read[i] = write[i] \/ (read[i] = Id("data") /\ write[i] = Id("newData"))
  /\ \E i \in 1..Len(read) : read[i] = Id("data") /\ write[i] = Id("newData")

SplitAlone(m) ==
  /\ HasKey(m, Control("read/write"))
  /\ ~HasKey(m, Control("read"))
  /\ ~HasKey(m, Control("write"))

RECURSIVE ReadWriteSplit(_, _, _)
ReadWriteSplit(doc, val, json) ==
  LET m == NodeOf(doc, val) IN
    /\ SplitAlone(m) =>
         /\ Has(json, ".read")
         /\ Has(json, ".write")
         /\ IF MentionsRef(doc, Get(m, Control("read/write")).v)
            THEN RootedApart(json[".read"].v, json[".write"].v)
            ELSE json[".read"] = json[".write"]
    /\ \A i \in 1..Len(m) :
         IsChild(m[i]) => ReadWriteSplit(doc, m[i].val, json[ChildName(m[i])].v)

\* C6: a node with .read/write: E and neither .read nor .write compiles to a
\* node with both .read and .write; the two are the same string when E
\* mentions no ref name, and when E mentions one the two differ exactly in
\* that .read is rooted at data where .write is rooted at newData.
C6_ReadWriteSplit == Compiled => ReadWriteSplit(original, original.root, outcome.rules)

\* Some node at or below val has a .read/write that mentions a ref, compiled.
RECURSIVE SplitOnRef(_, _, _)
SplitOnRef(doc, val, json) ==
  LET m == NodeOf(doc, val) IN
    \/ /\ SplitAlone(m)
       /\ MentionsRef(doc, Get(m, Control("read/write")).v)
       /\ Has(json, ".read")
       /\ json[".read"] # json[".write"]
    \/ \E i \in 1..Len(m) :
         IsChild(m[i]) /\ SplitOnRef(doc, m[i].val, json[ChildName(m[i])].v)

C6_Witness == Compiled /\ SplitOnRef(original, original.root, outcome.rules)

(***************************************************************************)
(* C7: required children                                                   *)
(***************************************************************************)
\* The names of the children of m whose constraint, in the document, carries
\* the keyword required: in entry order, key suffixes stripped.
RECURSIVE RequiredNames(_, _, _)
RequiredNames(doc, m, i) ==
  IF i > Len(m) THEN <<>>
  ELSE (IF IsChild(m[i]) /\
           HasKeyword(ConstraintKeywords(Constraint(m[i].val, doc.heap)), "required")
        THEN <<ChildName(m[i])>> ELSE <<>>) \o RequiredNames(doc, m, i + 1)

\* Whether the node's .value compiles to a non-empty expression.
HasValueBody(m) ==
  /\ HasKey(m, Control("value"))
  /\ Get(m, Control("value")).t = "text"
  /\ Trim(StripKeywords(Get(m, Control("value")).v)) # <<>>

IsSuffix(tail, text) ==
  Len(tail) <= Len(text) /\ SubSeq(text, Len(text) - Len(tail) + 1, Len(text)) = tail

RECURSIVE RequiredChecked(_, _, _)
RequiredChecked(doc, val, json) ==
  LET m == NodeOf(doc, val)
      names == RequiredNames(doc, m, 1)
      check == HasChildrenText(names)
  IN
  /\ IF names = <<>>
     THEN IF HasValueBody(m)
          THEN Has(json, ".validate") /\ ~Mentions(json[".validate"].v, "hasChildren")
          ELSE ~Has(json, ".validate")
     ELSE /\ Has(json, ".validate")
          /\ IF HasValueBody(m)
             THEN /\ Head(json[".validate"].v) = P("(")
                  /\ IsSuffix(<<P(")"), W, P("&&"), W>> \o check, json[".validate"].v)
             ELSE json[".validate"].v = check
  /\ \A i \in 1..Len(m) :
       IsChild(m[i]) => RequiredChecked(doc, m[i].val, json[ChildName(m[i])].v)

\* C7: at every node the hasChildren list names exactly the children whose
\* constraint carries required, in entry order and without key suffixes;
\* .validate is the compiled .value alone, the hasChildren call alone,
\* (<value>) && newData.hasChildren([...]), or absent, as the two exist.
C7_RequiredChildren == Compiled => RequiredChecked(original, original.root, outcome.rules)

(***************************************************************************)
(* C8: a subtree shared by a YAML alias                                    *)
(***************************************************************************)
\* The entries i and j of m are literal keys holding one mapping.
Aliases(m, i, j) ==
  /\ i < j
  /\ IsChild(m[i]) /\ IsChild(m[j])
  /\ ~IsWild(m[i]) /\ ~IsWild(m[j])
  /\ m[i].val.t = "map"
  /\ m[i].val = m[j].val

Listed(json, name) == Has(json, ".validate") /\ \E i \in 1..Len(json[".validate"].v) :
                                                  json[".validate"].v[i] = S(name)

Encrypted(firecrypt, name) == firecrypt.t = "obj" /\ Has(firecrypt.v, name)

\* C8: a mapping that stands under two keys of the root compiles under the
\* second key as under the first: the same output node, and the same
\* bookkeeping at the parent (both keys in its hasChildren list or neither,
\* both in firecrypt or neither).
C8_AliasCompilesAlike ==
  Compiled =>
    \A i, j \in 1..Len(NodeOf(original, original.root)) :
      LET m == NodeOf(original, original.root) IN
        Aliases(m, i, j) =>
          /\ outcome.rules[ChildName(m[i])] = outcome.rules[ChildName(m[j])]
          /\ Listed(outcome.rules, ChildName(m[i])) <=> Listed(outcome.rules, ChildName(m[j]))
          /\ Encrypted(outcome.firecrypt, ChildName(m[i])) <=>
               Encrypted(outcome.firecrypt, ChildName(m[j]))

(***************************************************************************)
(* C9: the order of a mapping's entries                                    *)
(***************************************************************************)
Count(text, x) == Cardinality({i \in 1..Len(text) : text[i] = x})
SameLexemes(t1, t2) ==
  /\ Len(t1) = Len(t2)
  /\ \A i \in 1..Len(t1) : Count(t1, t1[i]) = Count(t2, t1[i])

\* Two output trees that differ at most in the order of the elements of
\* their arrays (the array in the text of a hasChildren call too).
RECURSIVE SameButOrder(_, _)
SameButOrder(j1, j2) ==
  /\ DOMAIN j1 = DOMAIN j2
  /\ \A key \in DOMAIN j1 :
       /\ j1[key].t = j2[key].t
       /\ CASE j1[key].t = "obj" -> SameButOrder(j1[key].v, j2[key].v)
            [] j1[key].t = "arr" ->
                 {j1[key].v[i] : i \in 1..Len(j1[key].v)} =
                 {j2[key].v[i] : i \in 1..Len(j2[key].v)}
            [] j1[key].t = "str" -> SameLexemes(j1[key].v, j2[key].v)
            [] OTHER -> j1[key].v = j2[key].v

\* C9: a document and the document with entries of a mapping in another
\* order end alike: both compile or both fail, and the compiled trees differ
\* at most in the order of array elements.
C9_OrderIndependent ==
  (calls = 2 /\ handed = "reordered" /\ pc \in {"returned", "thrown"}) =>
    /\ outcome.status = previous.status
    /\ outcome.status = "returned" =>
         /\ SameButOrder(outcome.rules, previous.rules)
         /\ outcome.firecrypt.t = previous.firecrypt.t

(***************************************************************************)
(* C10: .indexChildrenOn                                                   *)
(***************************************************************************)
RECURSIVE NoIndexChildrenOn(_)
NoIndexChildrenOn(json) ==
  /\ ~Has(json, ".indexChildrenOn")
  /\ \A key \in DOMAIN json : json[key].t = "obj" => NoIndexChildrenOn(json[key].v)

\* Below val, through literal keys only, stands a child written as a
\* constraint string with the keyword indexed.
RECURSIVE IndexedUnderLiterals(_, _)
IndexedUnderLiterals(doc, val) ==
  LET m == NodeOf(doc, val) IN
    \E i \in 1..Len(m) :
      /\ IsChild(m[i])
      /\ ~IsWild(m[i])
      /\ \/ m[i].val.t = "text" /\ HasKeyword(Keywords(m[i].val.v), "indexed")
         \/ m[i].val.t = "map" /\ IndexedUnderLiterals(doc, m[i].val)

\* C10: no node of a returned rules tree has .indexChildrenOn, and a document
\* with an indexed child that has no wildcard key above it does not compile.
C10_IndexRequestsConsumed ==
  /\ Compiled => NoIndexChildrenOn(outcome.rules)
  /\ Ended /\ IndexedUnderLiterals(original, original.root) => outcome.status = "thrown"

\* A returned tree in which a wildcard's parent took the names handed up from
\* two levels below it.
C10_Witness ==
  /\ Compiled
  /\ Has(outcome.rules, ".indexOn")
  /\ \E i \in 1..Len(outcome.rules[".indexOn"].v) : outcome.rules[".indexOn"].v[i] = "c/d"

(***************************************************************************)
(* C11: where an index request ends                                        *)
(***************************************************************************)
\* The constraint of the child e carries the keyword w.
Marked(doc, e, w) == HasKeyword(ConstraintKeywords(Constraint(e.val, doc.heap)), w)

LiteralChildren(m) == {i \in 1..Len(m) : IsChild(m[i]) /\ ~IsWild(m[i])}
WildChildren(m) == {i \in 1..Len(m) : IsChild(m[i]) /\ IsWild(m[i])}

\* The literal-key children marked indexed that stand below val with literal
\* keys only on the way, each as the /-joined keys that lead to it.
RECURSIVE IndexedPaths(_, _)
IndexedPaths(doc, val) ==
  LET m == NodeOf(doc, val) IN
    UNION { (IF Marked(doc, m[i], "indexed") THEN {ChildName(m[i])} ELSE {}) \cup
            {ChildName(m[i]) \o "/" \o path : path \in IndexedPaths(doc, m[i].val)} :
            i \in LiteralChildren(m) }

\* What the claim puts into the .indexOn of the node m: .value for a wildcard
\* child marked indexed, and the paths below the wildcard child.
IndexOnOf(doc, m) ==
  UNION { (IF Marked(doc, m[i], "indexed") THEN {".value"} ELSE {}) \cup
          IndexedPaths(doc, m[i].val) : i \in WildChildren(m) }

Elements(json, key) ==
  IF Has(json, key) THEN {json[key].v[i] : i \in 1..Len(json[key].v)} ELSE {}

RECURSIVE IndexPlaced(_, _, _)
IndexPlaced(doc, val, json) ==
  LET m == NodeOf(doc, val) IN
    /\ Elements(json, ".indexOn") = IndexOnOf(doc, m)
    /\ Has(json, ".indexOn") => json[".indexOn"].v # <<>>
    /\ \A i \in 1..Len(m) :
         IsChild(m[i]) => IndexPlaced(doc, m[i].val, json[ChildName(m[i])].v)

\* C11: in a returned rules tree the .indexOn of a node holds exactly: .value
\* when its wildcard child is marked indexed, and, for every literal-key child
\* marked indexed whose nearest wildcard ancestor is that wildcard child, the
\* /-joined literal keys from below the wildcard down to the indexed child;
\* a node with nothing to hold has no .indexOn.
C11_DeepIndexPlacement == Compiled => IndexPlaced(original, original.root, outcome.rules)

\* A wildcard below a wildcard: the index request of a grandchild of the
\* inner one ends at the inner one's parent and goes no further up.
C11_Witness ==
  /\ Compiled
  /\ ~Has(outcome.rules, ".indexOn")
  /\ Has(outcome.rules, "$w")
  /\ Elements(outcome.rules["$w"].v, ".indexOn") = {"d"}
  /\ Has(outcome.rules["$w"].v, "$v")

(***************************************************************************)
(* C12: the depth of a ref                                                 *)
(***************************************************************************)
\* base.parent().parent()... with n calls of parent, as the author would write it.
RECURSIVE Chain(_, _)
Chain(base, n) ==
  IF n = 0 THEN <<Id(base)>>
  ELSE Chain(base, n - 1) \o <<P("."), Id("parent"), P("("), P(")")>>

\* The lexeme i of text is an identifier in use, not a property name.
UsedAt(text, i) == text[i].k = "id" /\ ~(i > 1 /\ text[i - 1] = P("."))

\* bound maps the ref names in scope to the depth each was bound at.
UsesBound(text, bound) ==
  \E i \in 1..Len(text) : UsedAt(text, i) /\ text[i].v \in DOMAIN bound

\* text with every use of a bound name written out as base and its parents.
RECURSIVE WrittenOut(_, _, _, _, _)
WrittenOut(text, i, bound, base, level) ==
  IF i > Len(text) THEN <<>>
  ELSE (IF UsedAt(text, i) /\ text[i].v \in DOMAIN bound
        THEN Chain(base, level - bound[text[i].v])
        ELSE <<text[i]>>) \o WrittenOut(text, i + 1, bound, base, level)

\* The rules of a node as its author wrote them: [rule, text] pairs, the
\* .read/write rule under both names.  A node with .read/write beside .read
\* or .write is left out (C5).
AuthorRules(m) ==
  IF Conflicting(m) THEN {}
  ELSE {<<r, Get(m, Control(r)).v>> :
          r \in {r \in {"read", "write"} : HasKey(m, Control(r)) /\ Get(m, Control(r)).t = "text"}}
       \cup {<<r, Get(m, Control("read/write")).v>> :
               r \in {r \in {"read", "write"} :
                        HasKey(m, Control("read/write")) /\
                        Get(m, Control("read/write")).t = "text"}}
       \cup {<<"value", StripKeywords(Get(m, Control("value")).v)>> :
               r \in {r \in {"value"} : HasKey(m, Control(r)) /\ Get(m, Control(r)).t = "text"}}

\* The compiled text of a rule in the output node: .validate, without what
\* the required children add to it, for .value.
CompiledRule(json, rule, len) ==
  IF rule = "value"
  THEN IF ~Has(json, ".validate") THEN <<>>
       ELSE IF Mentions(json[".validate"].v, "hasChildren")
       THEN SubSeq(json[".validate"].v, 2, 1 + len)
       ELSE json[".validate"].v
  ELSE IF Has(json, "." \o rule) THEN json["." \o rule].v ELSE <<>>

Base(rule) == IF rule = "read" THEN "data" ELSE "newData"

\* The text the rule compiles to when the chains are written by hand.
ByHand(text, bound, rule, scope, level, fns) ==
  ExpandExpression(Text(WrittenOut(text, 1, bound, Base(rule), level)), scope, NoRefs, level,
                   TRUE, fns).text

RECURSIVE RefDepth(_, _, _, _, _, _, _)
RefDepth(doc, val, json, outer, scope, level, fns) ==
  LET m == NodeOf(doc, val)
      bound == IF HasKey(m, Control("ref"))
               THEN (Str(Get(m, Control("ref")).v) :> level) @@ outer ELSE outer
  IN
  /\ \A rt \in AuthorRules(m) :
       UsesBound(rt[2], bound) =>
         CompiledRule(json, rt[1], Len(ByHand(rt[2], bound, rt[1], scope, level, fns))) =
           ByHand(rt[2], bound, rt[1], scope, level, fns)
  /\ \A i \in 1..Len(m) :
       IsChild(m[i]) =>
         RefDepth(doc, m[i].val, json[ChildName(m[i])].v, bound,
                  IF IsWild(m[i]) THEN Append(scope, ChildName(m[i])) ELSE scope,
                  level + 1, fns)

\* C12: in a returned rules tree, a rule of a node at depth l that uses a ref
\* name bound at depth r (by the nearest node at or above it that binds the
\* name) is compiled as the same rule with base.parent()...parent() written
\* in place of the name, l - r calls of parent, the base being newData in
\* .value and .write and data in .read.
C12_RefDepth ==
  Compiled => RefDepth(original, original.root, outcome.rules, NoRefs, <<>>, 0, functions)

\* A ref bound at the root and used two levels down in a .value: two parents
\* on newData.
C12_Witness ==
  /\ Compiled
  /\ HasKey(NodeOf(original, original.root), Control("ref"))
  /\ Has(outcome.rules, "$w")
  /\ Has(outcome.rules["$w"].v, "c")
  /\ Has(outcome.rules["$w"].v["c"].v, ".validate")
  /\ Len(outcome.rules["$w"].v["c"].v[".validate"].v) > 9
  /\ SubSeq(outcome.rules["$w"].v["c"].v[".validate"].v, 1, 9) = Chain("newData", 2)

(***************************************************************************)
(* C13: a ref name bound twice on a path                                   *)
(***************************************************************************)
\* At or below val a node binds by .ref a name of names, the names bound by
\* the nodes above it.
RECURSIVE Rebinds(_, _, _)
Rebinds(doc, val, names) ==
  LET m == NodeOf(doc, val)
      own == IF HasKey(m, Control("ref")) THEN {Str(Get(m, Control("ref")).v)} ELSE {}
  IN \/ own \cap names # {}
     \/ \E i \in 1..Len(m) : IsChild(m[i]) /\ Rebinds(doc, m[i].val, names \cup own)

\* C13: a document in which a node's .ref names a ref that a node above it
\* has bound, the root node included, does not compile: transform throws
\* 'ref already in scope'.
C13_RefInScopeRejected == Compiled => ~Rebinds(original, original.root, {})

(***************************************************************************)
(* C14: a ref name that starts with $                                      *)
(***************************************************************************)
\* The names of the documents that start with $.
DollarNames == {"$" \o n : n \in {"r", "v", "w"}}

\* Some node of the document has a .ref whose value starts with $.
DollarRef(doc) == RefNames(doc) \cap DollarNames # {}

\* C14: a document with a .ref whose value starts with $ does not compile
\* (transform throws 'ref name must not start with $').
C14_DollarRefRejected == Compiled => ~DollarRef(original)

(***************************************************************************)
(* C15: inlining as a simultaneous substitution                            *)
(***************************************************************************)
\* node with every free occurrence of a parameter replaced by its argument,
\* the arguments themselves left as they are.
RECURSIVE Simultaneous(_, _, _, _, _)
Simultaneous(node, ptype, pcomputed, slot, bindings) ==
  LET Sub(child, s) ==
        Simultaneous(child, node.type, node.type = "MemberExpression" /\ node.computed, s,
                     bindings)
  IN
  IF /\ node.type = "Identifier"
     /\ node.name \in DOMAIN bindings
     /\ ~(ptype = "MemberExpression" /\ ~pcomputed /\ slot = "property")
  THEN bindings[node.name]
  ELSE CASE node.type = "MemberExpression" ->
              [node EXCEPT !.object = Sub(node.object, "object"),
                           !.property = Sub(node.property, "property")]
         [] node.type = "CallExpression" ->
              [node EXCEPT !.callee = Sub(node.callee, "callee"),
                           !.arguments = [i \in 1..Len(node.arguments) |->
                                            Sub(node.arguments[i], "arguments")]]
         [] node.type \in {"BinaryExpression", "LogicalExpression"} ->
              [node EXCEPT !.left = Sub(node.left, "left"), !.right = Sub(node.right, "right")]
         [] node.type = "UnaryExpression" ->
              [node EXCEPT !.argument = Sub(node.argument, "argument")]
         [] OTHER -> node

\* The tree of a function body as written.
BodyTree(body) ==
  IF Parse(body).ok /\ Parse(body).ast.body # <<>> THEN Parse(body).ast.body[1].expression
  ELSE NoNode

\* node is a call f(e1..en) of a function of the table with n parameters.
CallsFunction(node, fns) ==
  /\ node.type = "CallExpression"
  /\ node.callee.type = "Identifier"
  /\ node.callee.name \in FnNames(fns)
  /\ Len(node.arguments) = Len(FnGet(fns, node.callee.name).args)

\* The arguments of the call as the walk leaves them before the inlining.
WalkedArguments(node, locals, fns) ==
  [i \in 1..Len(node.arguments) |->
     Visit(node.arguments[i], "CallExpression", FALSE, "arguments",
           Ctx(locals, NoRefs, 0, FALSE), fns).node]

\* The body of f with the call's arguments in place of f's parameters.
SimultaneouslyInlined(node, locals, fns) ==
  LET f == FnGet(fns, node.callee.name) IN
    Simultaneous(f.ast, f.ast.type, FALSE, "root",
                 Bindings(f.args, WalkedArguments(node, locals, fns)))

\* The loop of defineFunctions has ended.
TableDone == pc = "fixpoint" /\ ~changed

\* C15: an inlining ends, and where a function's body is a call f(e1..en)
\* the function's tree in the finished table is f's tree with every
\* parameter p_i replaced by e_i, nothing inside the e_i being replaced, also
\* when an e_i mentions a name that is a parameter of f.
C15_InliningSimultaneous ==
  /\ pc # "walking"
  /\ TableDone =>
       \A i \in 1..Len(Pairs(original.functions.list)) :
         LET d == Pairs(original.functions.list)[i] IN
           CallsFunction(BodyTree(d.body), functions) =>
             Generate(FnGet(functions, d.sig.name).ast) =
               Generate(SimultaneouslyInlined(BodyTree(d.body), Compact(d.sig.args), functions))

(***************************************************************************)
(* C16: no function name is left in the output                             *)
(***************************************************************************)
\* The expression strings of a rules tree.
RECURSIVE RuleTexts(_)
RuleTexts(json) ==
  {json[key].v : key \in {k \in DOMAIN json : json[k].t = "str"}} \cup
  UNION {RuleTexts(json[key].v) : key \in {k \in DOMAIN json : json[k].t = "obj"}}

\* Some expression of the tree uses, other than as a property name, an
\* identifier of names.
NameLeft(json, names) ==
  \E text \in RuleTexts(json) :
    \E i \in 1..Len(text) : UsedAt(text, i) /\ text[i].v \in names

\* The names the enter callback settles before it looks at the function
\* table: the built-in variables it knows, oneOf and env.
SettledFirst == (BUILTINS \ {"query"}) \cup {"oneOf"}

\* C16 as the specification states it: no expression of a returned rules
\* tree holds an identifier that names a function of the table, user-defined
\* or built-in.
C16_NoFunctionNameLeft == Compiled => ~NameLeft(outcome.rules, FnNames(functions))

\* C16 apart from the names the callbacks settle before they look at the
\* function table: no expression of a returned rules tree holds an identifier
\* that names a function of the table, unless the function is named like a
\* built-in variable (auth, now, root, next, newData, prev, data, env), like
\* oneOf, or like the snapshot methods child and parent, whose calls are
\* marked as snapshots and never inlined.
C16_NoFunctionNameLeftButBuiltin ==
  Compiled =>
    ~NameLeft(outcome.rules, FnNames(functions) \ (SettledFirst \cup {"child", "parent"}))

\* A compiled rule that used a user-defined function and a built-in one as
\* the objects of member accesses.
C16_Witness ==
  /\ Compiled
  /\ "b" \in FnNames(functions)
  /\ Mentions(NodeOf(original, original.root)[1].val.v, "number")
  /\ Mentions(NodeOf(original, original.root)[1].val.v, "b")
  /\ Has(outcome.rules, "v")

(***************************************************************************)
(* C17: the built-in query                                                 *)
(***************************************************************************)
\* C17: a document with a rule that uses query compiles, and query is still
\* in the compiled rules.
C17_QueryPassthrough ==
  Ended /\ UsedIn(original, original.root, "query") =>
    outcome.status = "returned" /\ NameLeft(outcome.rules, {"query"})

(***************************************************************************)
(* C18: duplicated keywords                                                *)
(***************************************************************************)
\* One of required, indexed, encrypted stands more than once in the keyword
\* prefix of the constraint (encrypted[...] is the lexeme encrypted and its
\* pattern).
Repeats(constraint) ==
  \E w \in KEYWORDS : Count(KeywordPrefix(constraint), Id(w)) > 1

\* Some child of the document has a constraint that repeats a keyword.
RepeatsSomewhere(doc) ==
  \E id \in 1..Len(doc.heap) :
    \E i \in 1..Len(doc.heap[id]) :
      IsChild(doc.heap[id][i]) /\ Repeats(Constraint(doc.heap[id][i].val, doc.heap))

\* C18: transform throws 'Duplicated child property keywords' only on a
\* document in which a constraint repeats a keyword, whatever white space
\* stands before, between and after the keywords, and a document in which a
\* constraint repeats a keyword does not compile.
C18_DuplicatedExactly ==
  Ended =>
    /\ outcome.err = "Duplicated child property keywords" => RepeatsSomewhere(original)
    /\ RepeatsSomewhere(original) => outcome.status = "thrown"

(***************************************************************************)
(* C19, C20: the .child() lift and the .val() wrap                         *)
(***************************************************************************)
\* A node that denotes a snapshot by its form: one of the snapshot variables,
\* or a call of the method child or parent of some object.
SnapshotTyped(node) ==
  \/ node.type = "Identifier" /\ node.name \in {"root", "next", "newData", "prev", "data"}
  \/ /\ node.type = "CallExpression"
     /\ node.callee.type = "MemberExpression"
     /\ ~node.callee.computed
     /\ node.callee.property.name \in {"child", "parent"}

\* node.val()
IsVal(node) ==
  /\ node.type = "CallExpression"
  /\ node.arguments = <<>>
  /\ node.callee.type = "MemberExpression"
  /\ ~node.callee.computed
  /\ node.callee.property.name = "val"

\* The tree with every member access on a snapshot, the callees of calls
\* apart, written as <object>.child(<key>).
RECURSIVE Lifted(_, _)
Lifted(node, callee) ==
  CASE node.type = "MemberExpression" ->
         LET o == Lifted(node.object, FALSE)
             p == IF node.computed THEN Lifted(node.property, FALSE) ELSE node.property
         IN IF SnapshotTyped(o) /\ ~callee
            THEN Call(Member(o, Ident("child"), FALSE),
                      <<IF node.computed THEN p ELSE Lit("str", node.property.name)>>)
            ELSE [node EXCEPT !.object = o, !.property = p]
    [] node.type = "CallExpression" ->
         [node EXCEPT !.callee = IF @.type = "Identifier" THEN @ ELSE Lifted(@, TRUE),
                      !.arguments = [i \in 1..Len(node.arguments) |->
                                       Lifted(node.arguments[i], FALSE)]]
    [] node.type \in {"BinaryExpression", "LogicalExpression"} ->
         [node EXCEPT !.left = Lifted(@, FALSE), !.right = Lifted(@, FALSE)]
    [] node.type = "UnaryExpression" -> [node EXCEPT !.argument = Lifted(@, FALSE)]
    [] node.type = "ExpressionStatement" -> [node EXCEPT !.expression = Lifted(@, FALSE)]
    [] node.type = "Program" ->
         [node EXCEPT !.body = [i \in 1..Len(node.body) |-> Lifted(node.body[i], FALSE)]]
    [] OTHER -> node

\* The tree with .val() written on every snapshot in a value context: one
\* whose parent is no member access, or that is the index of a bracketed one.
RECURSIVE Valued(_, _, _)
Valued(node, inMember, index) ==
  LET n ==
        CASE node.type = "MemberExpression" ->
               [node EXCEPT !.object = Valued(@, TRUE, FALSE),
                            !.property = IF node.computed THEN Valued(@, TRUE, TRUE) ELSE @]
          [] node.type = "CallExpression" ->
               [node EXCEPT !.callee = IF @.type = "Identifier" THEN @
                                       ELSE Valued(@, FALSE, FALSE),
                            !.arguments = [i \in 1..Len(node.arguments) |->
                                             Valued(node.arguments[i], FALSE, FALSE)]]
          [] node.type \in {"BinaryExpression", "LogicalExpression"} ->
               [node EXCEPT !.left = Valued(@, FALSE, FALSE),
                            !.right = Valued(@, FALSE, FALSE)]
          [] node.type = "UnaryExpression" ->
               [node EXCEPT !.argument = Valued(@, FALSE, FALSE)]
          [] node.type = "ExpressionStatement" ->
               [node EXCEPT !.expression = Valued(@, FALSE, FALSE)]
          [] node.type = "Program" ->
               [node EXCEPT !.body = [i \in 1..Len(node.body) |->
                                        Valued(node.body[i], FALSE, FALSE)]]
          [] OTHER -> node
  IN IF SnapshotTyped(n) /\ (~inMember \/ index)
     THEN Call(Member(n, Ident("val"), FALSE), <<>>)
     ELSE n

\* What the claims look at in each node of a tree: whether it is a member
\* access on a snapshot that is no callee, a snapshot in a value context, a
\* .val() on a .val().
Look(n, inMember, index, callee) ==
  [bare |-> n.type = "MemberExpression" /\ ~callee /\ SnapshotTyped(n.object),
   unwrapped |-> SnapshotTyped(n) /\ ~(callee /\ n.type = "Identifier") /\
                 (~inMember \/ index),
   twice |-> IsVal(n) /\ IsVal(n.callee.object)]

RECURSIVE Looks(_, _, _, _)
Looks(n, inMember, index, callee) ==
  {Look(n, inMember, index, callee)} \cup
  CASE n.type = "MemberExpression" ->
         Looks(n.object, TRUE, FALSE, FALSE) \cup
         (IF n.computed THEN Looks(n.property, TRUE, TRUE, FALSE) ELSE {})
    [] n.type = "CallExpression" ->
         Looks(n.callee, FALSE, FALSE, TRUE) \cup
         UNION {Looks(n.arguments[i], FALSE, FALSE, FALSE) : i \in 1..Len(n.arguments)}
    [] n.type \in {"BinaryExpression", "LogicalExpression"} ->
         Looks(n.left, FALSE, FALSE, FALSE) \cup Looks(n.right, FALSE, FALSE, FALSE)
    [] n.type = "UnaryExpression" -> Looks(n.argument, FALSE, FALSE, FALSE)
    [] n.type = "ExpressionStatement" -> Looks(n.expression, FALSE, FALSE, FALSE)
    [] n.type = "Program" ->
         UNION {Looks(n.body[i], FALSE, FALSE, FALSE) : i \in 1..Len(n.body)}
    [] OTHER -> {}

\* The rules of the document, each with the output node it is compiled
\* into, the refs in scope (the nearest binding of each name) and its depth.
RECURSIVE Sites(_, _, _, _, _)
Sites(doc, val, json, outer, level) ==
  LET m == NodeOf(doc, val)
      bound == IF HasKey(m, Control("ref"))
               THEN (Str(Get(m, Control("ref")).v) :> level) @@ outer ELSE outer
  IN {[rule |-> rt[1], text |-> rt[2], json |-> json, bound |-> bound, level |-> level] :
        rt \in AuthorRules(m)}
     \cup UNION {Sites(doc, m[i].val, json[ChildName(m[i])].v, bound, level + 1) :
                   i \in {j \in 1..Len(m) : IsChild(m[j])}}

\* The wildcard names of the documents.
Wildcards == <<"$w", "$v">>

\* What the tree, written out, compiles to at the site.
CompiledAt(site, ast, fns) ==
  ExpandExpression(Text(Generate(ast)), Wildcards, site.bound, site.level,
                   site.rule # "read", fns).text

\* The compiled rule of the site; expected is what it is compared with.
Output(site, expected) == CompiledRule(site.json, site.rule, Len(expected))

LiftedAt(site, fns) == CompiledAt(site, Lifted(Parse(site.text).ast, FALSE), fns)

ValuedAt(site, fns) ==
  CompiledAt(site, Valued(Lifted(Parse(site.text).ast, FALSE), FALSE, FALSE), fns)

\* C19: every rule of a returned tree is what the rule compiles to with
\* <object>.child(<key>) written by hand for each member access, dotted or
\* bracketed, on a snapshot that is not the callee of a call (the key being
\* the bracketed expression, or the property name as a string), and no
\* compiled rule holds a non-callee member access on root, newData, data or
\* a call of child or parent.
C19_SnapshotLift ==
  Compiled =>
    \A site \in Sites(original, original.root, outcome.rules, NoRefs, 0) :
      /\ Output(site, LiftedAt(site, functions)) = LiftedAt(site, functions)
      /\ \A look \in Looks(Parse(LiftedAt(site, functions)).ast, FALSE, FALSE, FALSE) :
           ~look.bare

\* A dotted access below a bracketed one, on root, compiled.
C19_Witness ==
  /\ Compiled
  /\ Has(outcome.rules, "$w")
  /\ Has(outcome.rules["$w"].v, ".read")
  /\ SubSeq(outcome.rules["$w"].v[".read"].v \o <<W, W, W, W, W, W, W, W, W, W, W, W, W, W, W>>,
            1, 15) =
       <<Id("root"), P("."), Id("child"), P("("), S("users"), P(")"), P("."), Id("child"),
         P("("), Id("auth"), P("."), Id("uid"), P(")"), P("."), Id("child")>>

\* C20: every rule of a returned tree is what the rule compiles to with
\* .val() written by hand on each snapshot in a value context (a .val()
\* written by the author is not wrapped again), and in no compiled rule a
\* snapshot stands in a value context without .val(), or .val() is applied
\* to a .val().
C20_ValueCoercion ==
  Compiled =>
    \A site \in Sites(original, original.root, outcome.rules, NoRefs, 0) :
      /\ Output(site, ValuedAt(site, functions)) = ValuedAt(site, functions)
      /\ \A look \in Looks(Parse(ValuedAt(site, functions)).ast, FALSE, FALSE, FALSE) :
           ~look.unwrapped /\ ~look.twice

\* A snapshot as the index of a bracketed access and one as the object of a
\* member access, compiled: the index has its .val(), the object has none.
C20_Witness ==
  /\ Compiled
  /\ Has(outcome.rules, "$w")
  /\ Has(outcome.rules["$w"].v, ".write")
  /\ outcome.rules["$w"].v[".write"].v =
       <<Id("auth"), P("["), Id("data"), P("."), Id("val"), P("("), P(")"), P("]"), W,
         P("=="), W, Id("newData"), P("."), Id("val"), P("("), P(")")>>

(***************************************************************************)
(* C21: data.foo[$bar]                                                     *)
(***************************************************************************)
\* The rule of the wildcard child of the root, as written, is text.
RuleIs(doc, key, text) ==
  LET m == NodeOf(doc, doc.root) IN
  /\ Len(m) = 1
  /\ IsChild(m[1]) /\ IsWild(m[1]) /\ m[1].val.t = "map"
  /\ NodeOf(doc, m[1].val) = <<E(Control(key), Text(text))>>

\* The key a rule is written out under.
OutKey(key) == IF key = "value" THEN ".validate" ELSE "." \o key

\* The same rule, compiled.
RuleOut(key) == outcome.rules["$w"].v[OutKey(key)].v

FooBarWithVal ==
  <<Id("data"), P("."), Id("child"), P("("), S("foo"), P(")"), P("."), Id("child"), P("("),
    Id("$w"), P("."), Id("val"), P("("), P(")"), P(")"), P("."), Id("val"), P("("), P(")")>>

FooBarPlain ==
  <<Id("data"), P("."), Id("child"), P("("), S("foo"), P(")"), P("."), Id("child"), P("("),
    Id("$w"), P(")"), P("."), Id("val"), P("("), P(")")>>

\* C21 as stated: for a wildcard local $w, the rule data.foo[$w] compiles to
\* data.child('foo').child($w.val()).val().
C21_WildcardIndexWithVal ==
  \A key \in {"read", "write", "value"} :
    Ended /\ RuleIs(original, key, TFooBar) =>
      outcome.status = "returned" /\ RuleOut(key) = FooBarWithVal

\* C21: for a wildcard local $w, the rule data.foo[$w] compiles to
\* data.child('foo').child($w).val(): the wildcard is no snapshot and gets
\* no .val().
C21_WildcardIndexPlain ==
  \A key \in {"read", "write", "value"} :
    Ended /\ RuleIs(original, key, TFooBar) =>
      outcome.status = "returned" /\ RuleOut(key) = FooBarPlain

C21_Witness ==
  /\ Compiled
  /\ RuleIs(original, "value", TFooBar)
  /\ outcome.rules["$w"].v[".validate"].v = FooBarPlain

(***************************************************************************)
(* C22: env                                                                *)
(***************************************************************************)
\* 'value' == 'value'
SameLiteral(value) == <<S(value), W, P("=="), W, S(value)>>

RECURSIVE Disjunction(_)
Disjunction(args) ==
  LET last == Binary("==", Call(Member(Ident("newData"), Ident("val"), FALSE), <<>>),
                     args[Len(args)])
  IN IF Len(args) = 1 THEN last
     ELSE Logical("||", Disjunction(SubSeq(args, 1, Len(args) - 1)), last)

\* The tree with that disjunction written for every call of oneOf.
RECURSIVE OneOfWritten(_)
OneOfWritten(node) ==
  CASE node.type = "CallExpression" ->
         LET args == [i \in 1..Len(node.arguments) |-> OneOfWritten(node.arguments[i])] IN
         IF node.callee.type = "Identifier" /\ node.callee.name = "oneOf" /\ args # <<>>
         THEN Disjunction(args)
         ELSE [node EXCEPT !.callee = OneOfWritten(@), !.arguments = args]
    [] node.type = "MemberExpression" ->
         [node EXCEPT !.object = OneOfWritten(@),
                      !.property = IF node.computed THEN OneOfWritten(@) ELSE @]
    [] node.type \in {"BinaryExpression", "LogicalExpression"} ->
         [node EXCEPT !.left = OneOfWritten(@), !.right = OneOfWritten(@)]
    [] node.type = "UnaryExpression" -> [node EXCEPT !.argument = OneOfWritten(@)]
    [] node.type = "ExpressionStatement" -> [node EXCEPT !.expression = OneOfWritten(@)]
    [] node.type = "Program" ->
         [node EXCEPT !.body = [i \in 1..Len(node.body) |-> OneOfWritten(node.body[i])]]
    [] OTHER -> node

OneOfWrittenAt(site, fns) == CompiledAt(site, OneOfWritten(Parse(site.text).ast), fns)

\* C23: every rule of a returned tree is what the rule compiles to with
\* newData.val() == a1 || ... || newData.val() == an, left-associated, written
\* by hand for each call oneOf(a1, ..., an), n >= 1, and no call of oneOf is
\* left in it.
C23_OneOfExpansion ==
  Compiled =>
    \A site \in Sites(original, original.root, outcome.rules, NoRefs, 0) :
      /\ Output(site, OneOfWrittenAt(site, functions)) = OneOfWrittenAt(site, functions)
      /\ Mentions(site.text, "oneOf") => ~Mentions(OneOfWrittenAt(site, functions), "oneOf")

\* oneOf('a', 'b', 'c') as a .value rule, compiled.
C23_Witness ==
  /\ Compiled
  /\ RuleIs(original, "value", OneOfCall(<<S("a"), P(","), W, S("b"), P(","), W, S("c")>>))
  /\ LET eq(x) == <<Id("newData"), P("."), Id("val"), P("("), P(")"), W, P("=="), W, S(x)>>
     IN RuleOut("value") = eq("a") \o <<W, P("||"), W>> \o eq("b") \o <<W, P("||"), W>> \o eq("c")

(***************************************************************************)
(* C24, C25: the firecrypt tree                                            *)
(***************************************************************************)
\* The child is annotated: /encrypted or /few on its key, or the encrypted
\* keyword in its constraint.
Annotated(doc, e) ==
  \/ HasSfx(e.key.sfx, "encrypted")
  \/ HasSfx(e.key.sfx, "few")
  \/ Mentions(KeywordPrefix(Constraint(e.val, doc.heap)), "encrypted")

\* The paths of the annotated children of the document, in output keys.
RECURSIVE AnnotatedPaths(_, _)
AnnotatedPaths(doc, val) ==
  LET m == NodeOf(doc, val) IN
  UNION { (IF Annotated(doc, m[i]) THEN {<<ChildName(m[i])>>} ELSE {}) \cup
          {<<ChildName(m[i])>> \o path : path \in AnnotatedPaths(doc, m[i].val)} :
          i \in {j \in 1..Len(m) : IsChild(m[j])} }

\* The paths of the nodes of a tree that hold an .encrypt entry.
RECURSIVE DescriptorPaths(_)
DescriptorPaths(json) ==
  (IF Has(json, ".encrypt") THEN {<<>>} ELSE {}) \cup
  UNION { {<<key>> \o path : path \in DescriptorPaths(json[key].v)} :
          key \in {k \in DOMAIN json : json[k].t = "obj"} }

\* The paths of all keys of a tree.
RECURSIVE KeyPaths(_)
KeyPaths(json) ==
  UNION { {<<key>>} \cup
          (IF json[key].t = "obj" THEN {<<key>> \o path : path \in KeyPaths(json[key].v)}
           ELSE {}) : key \in DOMAIN json }

IsPrefix(p, q) == Len(p) <= Len(q) /\ SubSeq(q, 1, Len(p)) = p

\* The firecrypt tree holds descriptors at exactly the paths, and no key that
\* is not on the way to one; it is undefined when there are none.
Isomorphic(firecrypt, paths) ==
  IF paths = {} THEN firecrypt = JUndefined
  ELSE /\ firecrypt.t = "obj"
       /\ DescriptorPaths(firecrypt.v) = paths
       /\ \A keys \in KeyPaths(firecrypt.v) :
            \E path \in paths : IsPrefix(keys, path \o <<".encrypt">>)

\* C24: the tree transformBranch hands to extractEncryptDirectives has an
\* .encrypt entry at exactly the paths of the annotated children of the
\* document (/encrypted or /few on the key, encrypted in the constraint), and
\* the firecrypt tree returned has a descriptor at exactly those paths, no
\* key off the way to one, and is undefined iff there is none.
C24_FirecryptIsomorphism ==
  /\ pc = "extract" => DescriptorPaths(tree) = AnnotatedPaths(original, original.root)
  /\ Compiled => Isomorphic(outcome.firecrypt, AnnotatedPaths(original, original.root))

\* A mapping of the document stands under two keys.
SharesMapping(doc) ==
  \E h1, h2 \in 1..Len(doc.heap) :
    \E i \in 1..Len(doc.heap[h1]) : \E j \in 1..Len(doc.heap[h2]) :
      /\ <<h1, i>> # <<h2, j>>
      /\ doc.heap[h1][i].val.t = "map"
      /\ doc.heap[h1][i].val = doc.heap[h2][j].val

\* A pattern of an encrypted keyword of the document holds white space.
RECURSIVE SpacedPattern(_, _)
SpacedPattern(doc, val) ==
  LET m == NodeOf(doc, val) IN
  \E i \in 1..Len(m) :
    /\ IsChild(m[i])
    /\ \/ \E j \in 1..Len(Constraint(m[i].val, doc.heap)) :
            Constraint(m[i].val, doc.heap)[j].k = "patopen"
       \/ SpacedPattern(doc, m[i].val)

\* The same for the documents in which no mapping stands under two keys and
\* no such pattern holds white space.
C24_FirecryptIsomorphismPlain ==
  ~SharesMapping(original) /\ ~SpacedPattern(original, original.root) =>
    C24_FirecryptIsomorphism

\* C25: no node of the rules tree transform returns, at any depth, has an
\* .encrypt entry.
C25_EncryptStripped == Compiled => DescriptorPaths(outcome.rules) = {}

\* A returned compilation whose firecrypt tree has descriptors at depth one
\* and at depth two.
C25_Witness ==
  /\ Compiled
  /\ outcome.firecrypt.t = "obj"
  /\ \E p, q \in DescriptorPaths(outcome.firecrypt.v) : Len(p) = 1 /\ Len(q) = 2

(***************************************************************************)
(* C26: any                                                                *)
(***************************************************************************)
\* The required children of the node, as written.
Requires(doc, m) == \E i \in 1..Len(m) : IsChild(m[i]) /\ Marked(doc, m[i], "required")

\* Every child whose constraint is any after its keywords is compiled open,
\* and its .validate is true (with the check of its required children after
\* it, where it has some).  withMore: also the children that have a .more
\* entry.
RECURSIVE AnyOpen(_, _, _, _)
AnyOpen(doc, val, json, withMore) ==
  LET m == NodeOf(doc, val) IN
  \A i \in 1..Len(m) :
    IsChild(m[i]) =>
      LET child == NodeOf(doc, m[i].val)
          out == json[ChildName(m[i])].v
      IN /\ ValueAny(child) /\ (withMore \/ ~HasKey(child, Control("more"))) =>
              /\ ~Has(out, "$other")
              /\ Has(out, ".validate")
              /\ IF Requires(doc, child)
                 THEN SubSeq(out[".validate"].v, 1, 3) = <<P("("), Id("true"), P(")")>>
                 ELSE out[".validate"].v = <<Id("true")>>
         /\ AnyOpen(doc, m[i].val, out, withMore)

\* C26: a child whose constraint is any after its keyword prefix is compiled
\* with .validate true and without $other, whatever .more entry it has.
C26_AnyOpens == Compiled => AnyOpen(original, original.root, outcome.rules, TRUE)

\* The same for the children without a .more entry, in the documents in
\* which no mapping stands under two keys.
C26_AnyOpensWithoutMore ==
  Compiled /\ ~SharesMapping(original) =>
    AnyOpen(original, original.root, outcome.rules, FALSE)

(***************************************************************************)
(* C27: function names                                                     *)
(***************************************************************************)
\* The names the document defines, in the order of its definitions.
Defined(doc) ==
  [i \in 1..Len(Pairs(doc.functions.list)) |-> Pairs(doc.functions.list)[i].sig.name]

DefinedTwice(doc) ==
  \E i, j \in 1..Len(Defined(doc)) : i # j /\ Defined(doc)[i] = Defined(doc)[j]

DefinesType(doc) ==
  \E i \in 1..Len(Defined(doc)) : Defined(doc)[i] \in {"boolean", "string", "number", "any"}

\* The table is built: the running call is past the first loop of
\* defineFunctions.
TableBuilt == handed # "same" /\ pc \in {"fixpoint", "walking", "extract", "returned"}

\* C27: a document that defines a name twice, or a function named boolean,
\* string, number or any, fails with 'Duplicate function definition', and a
\* table that is built holds one entry for each name the document defines
\* and for each of the four built-ins, and no other.
C27_UniqueNames ==
  /\ Ended /\ (DefinedTwice(original) \/ DefinesType(original)) =>
       outcome.status = "thrown" /\ outcome.err = "Duplicate function definition"
  /\ TableBuilt =>
       /\ FnNames(functions) =
            {Defined(original)[i] : i \in 1..Len(Defined(original))} \cup
            {"boolean", "string", "number", "any"}
       /\ \A i, j \in 1..Len(functions) : functions[i].name = functions[j].name => i = j
       /\ Len(functions) = Len(Defined(original)) + 4

\* A document whose third definition repeats the name of the first, rejected.
C27_Witness ==
  /\ pc = "thrown"
  /\ handed = "first"
  /\ outcome.err = "Duplicate function definition"
  /\ Len(Defined(original)) = 3
  /\ Defined(original)[1] = "a" /\ Defined(original)[3] = "a"

(***************************************************************************)
(* C28: the loop of defineFunctions                                        *)
(***************************************************************************)
\* Some call in the tree has one of the names as its callee.
RECURSIVE HasCall(_, _)
HasCall(node, names) ==
  CASE node.type = "CallExpression" ->
         \/ node.callee.type = "Identifier" /\ node.callee.name \in names
         \/ HasCall(node.callee, names)
         \/ \E i \in 1..Len(node.arguments) : HasCall(node.arguments[i], names)
    [] node.type = "MemberExpression" ->
         HasCall(node.object, names) \/ (node.computed /\ HasCall(node.property, names))
    [] node.type \in {"BinaryExpression", "LogicalExpression"} ->
         HasCall(node.left, names) \/ HasCall(node.right, names)
    [] node.type = "UnaryExpression" -> HasCall(node.argument, names)
    [] node.type = "ExpressionStatement" -> HasCall(node.expression, names)
    [] node.type = "Program" -> \E i \in 1..Len(node.body) : HasCall(node.body[i], names)
    [] OTHER -> FALSE

\* The loop of defineFunctions has ended, by its condition or by an error.
LoopEnded == pc \in {"thrown", "extract", "returned"} \/ (pc = "fixpoint" /\ ~changed)

\* Every function of the table is fully transformed: no call of a function
\* of the table or of oneOf in it, and one more pass changes nothing.
FullyTransformed(fns) ==
  \A i \in 1..Len(fns) :
    /\ ~HasCall(fns[i].ast, FnNames(fns) \cup {"oneOf"})
    /\ TransformAst(fns[i].ast, fns[i].args, NoRefs, 0, FALSE, fns) = R(fns[i].ast, FALSE, "")

\* C28: on a document whose functions do not call themselves, directly or
\* through others, the loop of defineFunctions ends, and when it has ended
\* by its condition every function of the table is fully transformed.
C28_FixpointEnds ==
  /\ [](pc = "fixpoint" /\ ~changed /\ ~Recursive(original) => FullyTransformed(functions))
  /\ (pc = "defineFunctions" /\ ~Recursive(original) ~> LoopEnded)

\* A parameter of a function the body of f calls is named in the argument
\* f hands it (the case of C15).
Collides(doc) ==
  \E i, j \in 1..Len(Pairs(doc.functions.list)) :
    LET f == Pairs(doc.functions.list)[i]
        g == Pairs(doc.functions.list)[j]
    IN /\ Mentions(f.body, g.sig.name)
       /\ \E k \in 1..Len(g.sig.args) : Mentions(f.body, g.sig.args[k])

\* The same for the documents without such an argument.
C28_FixpointEndsApart ==
  /\ [](pc = "fixpoint" /\ ~changed /\ ~Recursive(original) => FullyTransformed(functions))
  /\ (pc = "defineFunctions" /\ ~Recursive(original) /\ ~Collides(original) ~> LoopEnded)

(***************************************************************************)
(* C29: compiled rules are fixed points                                    *)
(***************************************************************************)
\* expandExpression on the rule of the site.
ExpandedAt(site, fns) == CompiledAt(site, Parse(site.text).ast, fns)

\* transformAst once more, on the parsed text, with the locals, refs and
\* level of the site.
AgainAt(site, text, fns) ==
  TransformAst(Parse(text).ast, Wildcards, site.bound, site.level, site.rule # "read", fns)

\* The text stands in the returned tree, and one more pass over it throws
\* nothing, leaves changed false and generates the text again.
Quiescent(site, text, fns) ==
  /\ Output(site, text) = text
  /\ AgainAt(site, text, fns).err = ""
  /\ ~AgainAt(site, text, fns).changed
  /\ Generate(AgainAt(site, text, fns).node) = text

\* C29: every rule of a returned tree is a fixed point of the transformer:
\* parsed and transformed once more, with the same locals, refs and level,
\* it is not rewritten, changed stays false, and the same text is generated.
C29_Quiescent ==
  Compiled =>
    \A site \in Sites(original, original.root, outcome.rules, NoRefs, 0) :
      Quiescent(site, ExpandedAt(site, functions), functions)

\* The same for the documents with no call of child or parent that is not a
\* method call.
C29_QuiescentMethods ==
  Compiled =>
    \A site \in Sites(original, original.root, outcome.rules, NoRefs, 0) :
      ~HasCall(Parse(site.text).ast, {"child", "parent"}) =>
        Quiescent(site, ExpandedAt(site, functions), functions)

(***************************************************************************)
(* C30: ref scoping is stack-like                                          *)
(***************************************************************************)
\* The locals of a call of transformBranch on yaml as its loop reaches the
\* i-th key: the entries before it are done.
LoopAt(yaml, i, locals, refs, level, heap, fns) ==
  LET y0 == AsMapping(yaml, heap)
      hasRef == HasKey(y0, Control("ref"))
      y == SplitReadWrite(DeleteKey(y0, Control("ref")))
      own == IF hasRef THEN (Str(Get(y0, Control("ref")).v) :> level) @@ refs ELSE refs
  IN Entries(SubSeq(KeysOf(y), 1, i - 1), 1, Start(y, locals, own, heap), level, fns)

\* The calls of transformBranch in the call on yaml, that call included: for
\* each the refs object as the call was entered and as it returned, and the
\* scope of the node, the bindings of the nodes above it and their depths.
RECURSIVE BranchCalls(_, _, _, _, _, _, _)
BranchCalls(yaml, locals, refs, level, heap, fns, scope) ==
  LET y0 == AsMapping(yaml, heap)
      hasRef == HasKey(y0, Control("ref"))
      y == SplitReadWrite(DeleteKey(y0, Control("ref")))
      keys == KeysOf(y)
      inner == IF hasRef THEN (Str(Get(y0, Control("ref")).v) :> level) @@ scope ELSE scope
      At(i) == LoopAt(yaml, i, locals, refs, level, heap, fns)
  IN {[entered |-> refs,
       returned |-> TransformBranch(yaml, locals, refs, level, heap, fns).refs,
       scope |-> scope, level |-> level]}
     \cup UNION {BranchCalls(Get(At(i).yaml, keys[i]),
                             Locals(At(i), StripKey(keys[i]), keys[i].sigil = "$"),
                             At(i).refs, level + 1, At(i).heap, fns, inner) :
                   i \in {j \in 1..Len(keys) : IsChild(y[j])}}

\* The calls of transformBranch of the compilation.
RootCalls == BranchCalls(original.root, <<>>, NoRefs, 0, original.heap, functions, NoRefs)

\* C30: in a compilation that returns, every call of transformBranch leaves
\* the refs object as it found it, and finds in it the bindings of the nodes
\* above its node, each with the depth of the node that made it, and no
\* other: a binding is in scope in the subtree of its node only, and the
\* bindings of the ancestors stay for the siblings processed afterwards.
C30_StackLikeRefs ==
  Compiled => \A call \in RootCalls : call.returned = call.entered /\ call.entered = call.scope

\* The same for the documents in which no node binds a name that a node above
\* it has bound.
C30_StackLikeRefsApart ==
  Compiled /\ ~Rebinds(original, original.root, {}) =>
    \A call \in RootCalls : call.returned = call.entered /\ call.entered = call.scope

====
